---- MODULE Spec2Model ----
(***************************************************************************)
(* A model of the quantitative core of the weiquant dashboard:             *)
(*   - BacktestEngine               (src/js/backtest.js)                    *)
(*   - ProfessionalRiskAssessment   (src/unnamed/part_000)                  *)
(*   - the portfolio stores         (src/js/portfolio.js, portfolio-pro.js) *)
(*   - runMonteCarloSimulation      (src/unnamed/part_004)                  *)
(*                                                                         *)
(* Numbers.  JavaScript numbers are doubles; the model computes with exact *)
(* integers and rationals.  Prices are small positive integers, a          *)
(* comparison such as  close > ma * 1.02  is cross-multiplied, and the     *)
(* exponential averages are carried in units of 1/Scale.  A falsy number   *)
(* (0 or NaN) is the integer 0 wherever the code only tests `x || default`. *)
(* Sequences are 1-based: the bar with JavaScript index j is data[j + 1].  *)
(***************************************************************************)
EXTENDS Integers, Sequences, FiniteSets, TLC

VARIABLES
    \* ---- BacktestEngine ----
    historicalData,   \* this.historicalData: sequence of bars
    results,          \* this.results (NoResults models null)
    pc,               \* position of the runBacktest call in flight
    strategyName,     \* argument of the call in flight
    params,           \* argument of the call in flight
    i,                \* loop index of the strategy (JavaScript index)
    position,         \* local `position` of the strategy
    cash,             \* local `cash` of the strategy
    trades,           \* local `trades`
    portfolioValues,  \* local `portfolioValues`
    finalValue,       \* the strategy's returned finalValue
    outcome,          \* how the last runBacktest call ended
    preData,          \* historicalData when the last call started
    preResults,       \* results when the last call started
    \* ---- ProfessionalRiskAssessment ----
    riskCall,         \* the method called last
    riskInput,        \* its arguments
    riskResult,       \* what it returned
    \* ---- the portfolio pages ----
    page,             \* the page that is open
    positions,        \* PortfolioManager.positions
    portfolio,        \* the portfolio array of portfolio.js
    nextId,           \* the next fresh id
    ops,              \* calls that changed a store so far
    \* ---- runMonteCarloSimulation ----
    mcPc,             \* where the call is
    simulations,      \* its argument
    sim,              \* the loop counter
    mcResults,        \* results: the paths that ended on each final value
    mcReturn,         \* what the last call returned
    \* ---- quant-ui.js ----
    quantEngine,      \* quantEngine is set
    quantCall,        \* the analysis run last
    quantInput,       \* what it was run with
    quantOutcome,     \* what performMonteCarloSimulation returned
    \* ---- portfolio-analysis.js ----
    anCall,           \* the method of PortfolioAnalyzer called last
    anInput,          \* the portfolio it was called with
    anResult,         \* what it returned
    \* ---- error-handler.js ----
    alertQueue,       \* this.alertQueue
    isProcessingAlerts, \* this.isProcessingAlerts
    alertLoops,       \* calls of processAlertQueue waiting in their delay
    now,              \* Date.now(), in seconds
    displayed,        \* the messages displayAlert has shown, in order
    rejections,       \* rejected promises of processAlertQueue not yet reported
    alertsRaised,     \* calls of showUserAlert so far
    \* ---- EnhancedPortfolioManager ----
    managerHoldings,  \* this.holdings
    addCalls,         \* the calls of addAsset and where each of them is
    \* ---- PortfolioManager of portfolio-professional.js ----
    priceCache,       \* this.priceCache, the entry of the asset's symbol
    pmAsset,          \* a holding handed to updateAssetPrice
    pmClock,          \* Date.now(), in minutes
    pmLast            \* what the last getCurrentPrice did

btVars == <<historicalData, results, pc, strategyName, params, i, position,
            cash, trades, portfolioValues, finalValue, outcome, preData,
            preResults>>

riskVars == <<riskCall, riskInput, riskResult>>

pfVars == <<page, positions, portfolio, nextId, ops>>

mcVars == <<mcPc, simulations, sim, mcResults, mcReturn>>

quVars == <<quantEngine, quantCall, quantInput, quantOutcome>>

anVars == <<anCall, anInput, anResult>>

alVars == <<alertQueue, isProcessingAlerts, alertLoops, now, displayed,
            rejections, alertsRaised>>

emVars == <<managerHoldings, addCalls>>

pmVars == <<priceCache, pmAsset, pmClock, pmLast>>

vars == <<btVars, riskVars, pfVars, mcVars, quVars, anVars, alVars, emVars,
          pmVars>>

-----------------------------------------------------------------------------
(* Bounds of the model *)

MaxLen == 6
MaxPrice == 3

-----------------------------------------------------------------------------
(* Helpers *)

Min(a, b) == IF a < b THEN a ELSE b
Max(a, b) == IF a > b THEN a ELSE b

RECURSIVE Pow(_, _)
Pow(b, e) == IF e = 0 THEN 1 ELSE b * Pow(b, e - 1)

RECURSIVE SumSeq(_)
SumSeq(s) == IF s = <<>> THEN 0 ELSE Head(s) + SumSeq(Tail(s))

\* `x || d` on numbers: 0 and NaN are falsy
OrDefault(x, d) == IF x = 0 THEN d ELSE x

\* Math.floor(a / b) for a >= 0, b > 0
Floor(a, b) == a \div b

\* data.slice(from, to) with JavaScript indices, 0 <= from <= to <= length
Slice(s, from, to) == SubSeq(s, from + 1, to)

Closes(data) == [j \in 1..Len(data) |-> data[j].close]

-----------------------------------------------------------------------------
(* BacktestEngine: constructor *)

Prices == 1..MaxPrice

\* a daily bar; the open differs from the close as in generateHistoricalData
Bar(c) == [open |-> c + 1, close |-> c]

Series(n) == {[j \in 1..n |-> Bar(cs[j])] : cs \in [1..n -> Prices]}

DEFAULT_DAYS == 252
DEFAULT_CAPITAL == 10000
DEFAULT_PERIOD == 20
DEFAULT_Z == 2
DEFAULT_FAST == 12
DEFAULT_SLOW == 26
DEFAULT_SIGNAL == 9

\* a fallback series of a single bar
generateHistoricalData_OneBar(days) == Series(1)

\* generateHistoricalData(days): a random walk of `days` bars whose close
\* moves every day (the factor 1 + dailyReturn + trendComponent is 1 only if
\* Math.random() falls within 1e-14 of 0.495).  The model draws any such
\* series over Prices and cuts its length at MaxLen.
generateHistoricalData(days) ==
    {s \in Series(Min(Max(days, 0), MaxLen)) :
        \A j \in 1..(Len(s) - 1) : s[j].close # s[j + 1].close}

\* the own keys of this.strategies
strategies == {"buyAndHold", "momentum", "meanReversion", "macdCrossover"}

\* members every object literal inherits from Object.prototype; a lookup
\* this.strategies[name] finds them as well as the own keys
ObjectPrototype == {"toString", "constructor"}

\* strategy names a caller may pass
StrategyNames == strategies \cup {"toString", "unknown"}

\* this.strategies[strategyName] is truthy
strategyLookup(name) == name \in strategies \/ name \in ObjectPrototype

NoMetrics == [totalTrades |-> 0, winningTrades |-> 0, totalClosedTrades |-> 0,
              winRate |-> 0, sharpeRatio |-> "finite", volatility |-> "zero",
              totalReturn |-> [negative |-> FALSE, hundredths |-> 0]]

NoResults == [strategy |-> "null", trades |-> <<>>, portfolioValues |-> <<>>,
              finalValue |-> 0, metrics |-> NoMetrics]

NoParams == [initialCapital |-> 0, maPeriod |-> 0, lookback |-> 0,
             zScoreThreshold |-> 0, fastPeriod |-> 0, slowPeriod |-> 0,
             signalPeriod |-> 0]

\* a lookback longer than any series, the generated one included
LongPeriod == DEFAULT_DAYS + 48

\* parameter objects a caller may pass (0: the key is absent).  The MACD
\* periods are always given: 1/3/3 keeps every average a dyadic rational.
ParamChoices ==
    {[initialCapital |-> c, maPeriod |-> p, lookback |-> p,
      zScoreThreshold |-> 0, fastPeriod |-> 1, slowPeriod |-> 3,
      signalPeriod |-> 3] : c \in {0, 1}, p \in {2, LongPeriod}}

BacktestInit ==
    /\ historicalData = <<>>
    /\ results = NoResults
    /\ pc = "idle"
    /\ strategyName = "none"
    /\ params = NoParams
    /\ i = 0
    /\ position = 0
    /\ cash = 0
    /\ trades = <<>>
    /\ portfolioValues = <<>>
    /\ finalValue = 0
    /\ outcome = "none"
    /\ preData = <<>>
    /\ preResults = NoResults

-----------------------------------------------------------------------------
(* BacktestEngine: loadHistoricalData *)

\* the engine is loaded before its first run
loadHistoricalData ==
    /\ pc = "idle"
    /\ results = NoResults
    /\ historicalData = <<>>
    /\ outcome = "none"
    /\ \E days \in 0..MaxLen :
         \E d \in generateHistoricalData(days) : historicalData' = d
    /\ UNCHANGED <<results, pc, strategyName, params, i, position, cash,
                   trades, portfolioValues, finalValue, outcome, preData,
                   preResults>>

-----------------------------------------------------------------------------
(* BacktestEngine: the strategies' signals and sizing *)

\* a BUY that takes half of what cash buys
buyShares_Half(c, price) == Floor(c, 2 * price)

\* Math.floor(cash / price): every BUY takes as many whole shares as cash buys
buyShares(c, price) == Floor(c, price)

\* cash after a SELL of the whole position
sellProceeds(c, pos, price) == c + pos * price

\* position after a SELL
positionAfterSell(pos) == 0

\* the buy signal taken at the lower band, ma * 0.98
momentumBuySignal_LowerBand(pos, price, window, maPeriod) ==
    pos = 0 /\ price * maPeriod * 100 > SumSeq(window) * 98

\* momentumStrategy: position === 0 && currentPrice > ma * 1.02, with
\* ma = sum(window) / maPeriod
momentumBuySignal(pos, price, window, maPeriod) ==
    pos = 0 /\ price * maPeriod * 100 > SumSeq(window) * 102

\* the sell signal without its `position > 0` conjunct
momentumSellSignal_NoPositionCheck(pos, price, window, maPeriod) ==
    price * maPeriod * 100 < SumSeq(window) * 98

\* momentumStrategy: position > 0 && currentPrice < ma * 0.98
momentumSellSignal(pos, price, window, maPeriod) ==
    pos > 0 /\ price * maPeriod * 100 < SumSeq(window) * 98

\* n * (close - mean) for a window of n prices
zNumerator(prices, close) == Len(prices) * close - SumSeq(prices)

\* n^3 * variance of the window
zSpread(prices) ==
    SumSeq([j \in 1..Len(prices) |->
              (Len(prices) * prices[j] - SumSeq(prices))
            * (Len(prices) * prices[j] - SumSeq(prices))])

\* zScore < -t that takes a window without spread for "no signal"
zScoreBelow_SpreadOnly(prices, close, t) ==
    /\ zSpread(prices) > 0
    /\ zNumerator(prices, close) < 0
    /\ zNumerator(prices, close) * zNumerator(prices, close) * Len(prices)
         > t * t * zSpread(prices)

\* zScore < -t, where zScore = (close - mean) / std and t > 0.  With std = 0
\* the quotient is -Infinity (close < mean), +Infinity or NaN (close = mean).
zScoreBelow(prices, close, t) ==
    /\ zNumerator(prices, close) < 0
    /\ zNumerator(prices, close) * zNumerator(prices, close) * Len(prices)
         > t * t * zSpread(prices)

\* zScore > t for t >= 0
zScoreAbove(prices, close, t) ==
    /\ zNumerator(prices, close) > 0
    /\ zNumerator(prices, close) * zNumerator(prices, close) * Len(prices)
         > t * t * zSpread(prices)

\* meanReversionStrategy: position === 0 && zScore < -zScoreThreshold
meanReversionBuySignal(pos, prices, close, t) ==
    pos = 0 /\ zScoreBelow(prices, close, t)

\* meanReversionStrategy: position > 0 && (zScore > 0 || zScore > threshold)
meanReversionSellSignal(pos, prices, close, t) ==
    pos > 0 /\ (zScoreAbove(prices, close, 0) \/ zScoreAbove(prices, close, t))

\* the unit of the exponential averages: 1/Scale
Scale == Pow(2, 2 * (MaxLen + 1))

RECURSIVE emaLoop(_, _, _, _)
emaLoop(data, period, j, ema) ==
    IF j > Len(data) THEN ema
    ELSE emaLoop(data, period, j + 1,
                 Append(ema, (2 * data[j] + (period - 1) * ema[j - 1])
                               \div (period + 1)))

\* calculateEMA: k = 2 / (period + 1), seeded with the first point
calculateEMA(data, period) == emaLoop(data, period, 2, <<data[1]>>)

\* calculateMACD: per bar the price, the MACD line and the signal line
calculateMACD(data, fastPeriod, slowPeriod, signalPeriod) ==
    LET scaled == [j \in 1..Len(data) |-> data[j].close * Scale]
        emaFast == calculateEMA(scaled, fastPeriod)
        emaSlow == calculateEMA(scaled, slowPeriod)
        macdLine == [j \in 1..Len(data) |-> emaFast[j] - emaSlow[j]]
        signalLine == calculateEMA(macdLine, signalPeriod)
    IN  [j \in 1..Len(data) |->
           [date |-> j - 1, price |-> data[j].close, macd |-> macdLine[j],
            signal |-> signalLine[j]]]

\* macdStrategy: `if (!macd.signal) continue;`
macdSkipBar(m) == m.signal = 0

\* macdStrategy: the MACD line crosses above the signal line
macdBuySignal(pos, md, j) ==
    /\ pos = 0
    /\ md[j + 1].macd > md[j + 1].signal
    /\ j > 0
    /\ md[j].macd <= md[j].signal

\* macdStrategy: the MACD line crosses below the signal line
macdSellSignal(pos, md, j) ==
    /\ pos > 0
    /\ md[j + 1].macd < md[j + 1].signal
    /\ j > 0
    /\ md[j].macd >= md[j].signal

Trade(date, action, price, shares) ==
    [date |-> date, action |-> action, price |-> price, shares |-> shares]

Value(date, value) == [date |-> date, value |-> value]

-----------------------------------------------------------------------------
(* BacktestEngine: runBacktest *)

callLocals == <<i, position, cash, trades, portfolioValues, finalValue>>

resetLocals ==
    /\ i' = 0
    /\ position' = 0
    /\ cash' = 0
    /\ trades' = <<>>
    /\ portfolioValues' = <<>>
    /\ finalValue' = 0

\* the `throw` of an unknown name: nothing else has happened
runBacktestNotFound ==
    /\ pc = "idle"
    /\ \E name \in StrategyNames, p \in ParamChoices :
         /\ ~strategyLookup(name)
         /\ strategyName' = name
         /\ params' = p
    /\ preData' = historicalData
    /\ preResults' = results
    /\ outcome' = "thrown"
    /\ UNCHANGED <<historicalData, results, pc>>
    /\ UNCHANGED callLocals

\* the first index the strategy's loop visits
firstIndex(name, p) ==
    CASE name = "momentum" -> OrDefault(p.maPeriod, DEFAULT_PERIOD)
      [] name = "meanReversion" -> OrDefault(p.lookback, DEFAULT_PERIOD)
      [] OTHER -> 0

\* the name resolves to one of the four strategies: default data if none is
\* loaded, then the strategy starts
runBacktest ==
    /\ pc = "idle"
    /\ \E name \in StrategyNames, p \in ParamChoices :
         /\ strategyLookup(name)
         /\ name \in strategies
         /\ strategyName' = name
         /\ params' = p
         /\ i' = firstIndex(name, p)
         /\ cash' = OrDefault(p.initialCapital, DEFAULT_CAPITAL)
    /\ preData' = historicalData
    /\ preResults' = results
    /\ IF Len(historicalData) = 0
       THEN \E d \in generateHistoricalData(DEFAULT_DAYS) : historicalData' = d
       ELSE UNCHANGED historicalData
    /\ pc' = "strategy"
    /\ outcome' = "running"
    /\ position' = 0
    /\ trades' = <<>>
    /\ portfolioValues' = <<>>
    /\ finalValue' = 0
    /\ UNCHANGED results

\* the name resolves to a member inherited from Object.prototype: the lookup
\* is truthy, default data is generated if none is loaded, the member is
\* called and returns no result record, and calculatePerformanceMetrics
\* throws a TypeError at values.length
runBacktestInherited ==
    /\ pc = "idle"
    /\ \E name \in StrategyNames, p \in ParamChoices :
         /\ strategyLookup(name)
         /\ name \notin strategies
         /\ strategyName' = name
         /\ params' = p
    /\ preData' = historicalData
    /\ preResults' = results
    /\ IF Len(historicalData) = 0
       THEN \E d \in generateHistoricalData(DEFAULT_DAYS) : historicalData' = d
       ELSE UNCHANGED historicalData
    /\ outcome' = "thrown"
    /\ UNCHANGED <<results, pc>>
    /\ UNCHANGED callLocals

-----------------------------------------------------------------------------
(* BacktestEngine: buyAndHoldStrategy *)

\* the equity of a day valued at the buy price instead of the day's close
buyAndHoldValue_AtBuyPrice(shares, close, initialCapital, buyValue) ==
    buyValue + (initialCapital - buyValue)

\* the equity of a day without the cash left over by the buy
buyAndHoldValue_NoCash(shares, close, initialCapital, buyValue) ==
    shares * close

\* the equity of a day: shares * day.close + (initialCapital - buyValue)
buyAndHoldValue(shares, close, initialCapital, buyValue) ==
    shares * close + (initialCapital - buyValue)

\* a buy at the opening price of the first bar
buyAndHoldPrice_Open(data) == data[1].open

\* const buyPrice = data[0].close
buyAndHoldPrice(data) == data[1].close

buyAndHoldStrategy ==
    /\ pc = "strategy"
    /\ strategyName = "buyAndHold"
    /\ LET data == historicalData
           initialCapital == cash
           buyPrice == buyAndHoldPrice(data)
           shares == buyShares(initialCapital, buyPrice)
           buyValue == shares * buyPrice
           values == [j \in 1..Len(data) |->
                        Value(j - 1, buyAndHoldValue(shares, data[j].close,
                                                     initialCapital, buyValue))]
       IN  /\ trades' = <<Trade(0, "BUY", buyPrice, shares)>>
           /\ position' = shares
           /\ cash' = initialCapital - buyValue
           /\ portfolioValues' = values
           /\ finalValue' = values[Len(values)].value
           /\ i' = Len(data)
    /\ pc' = "metrics"
    /\ UNCHANGED <<historicalData, results, strategyName, params, outcome,
                   preData, preResults>>

-----------------------------------------------------------------------------
(* BacktestEngine: momentumStrategy *)

\* one pass of the loop body, for bar i
momentumBar ==
    /\ pc = "strategy"
    /\ strategyName = "momentum"
    /\ i < Len(historicalData)
    /\ LET data == historicalData
           maPeriod == OrDefault(params.maPeriod, DEFAULT_PERIOD)
           window == Slice(Closes(data), i - maPeriod, i)
           currentPrice == data[i + 1].close
           shares == buyShares(cash, currentPrice)
       IN  /\ IF momentumBuySignal(position, currentPrice, window, maPeriod)
              THEN IF shares > 0
                   THEN /\ position' = shares
                        /\ cash' = cash - shares * currentPrice
                        /\ trades' = Append(trades,
                                       Trade(i, "BUY", currentPrice, shares))
                   ELSE UNCHANGED <<position, cash, trades>>
              ELSE IF momentumSellSignal(position, currentPrice, window, maPeriod)
                   THEN /\ cash' = sellProceeds(cash, position, currentPrice)
                        /\ trades' = Append(trades,
                                       Trade(i, "SELL", currentPrice, position))
                        /\ position' = positionAfterSell(position)
                   ELSE UNCHANGED <<position, cash, trades>>
           /\ portfolioValues' = Append(portfolioValues,
                                   Value(i, position' * currentPrice + cash'))
    /\ i' = i + 1
    /\ UNCHANGED <<historicalData, results, pc, strategyName, params,
                   finalValue, outcome, preData, preResults>>

\* after the loop: `if (position > 0) cash += position * lastPrice` and
\* `finalValue: cash`.  No trade is recorded.  The variable cash keeps the
\* cash the loop ended with; the sum is what the call returns.
momentumReturn ==
    /\ pc = "strategy"
    /\ strategyName = "momentum"
    /\ i >= Len(historicalData)
    /\ finalValue' = IF position > 0
                     THEN cash + position
                                   * historicalData[Len(historicalData)].close
                     ELSE cash
    /\ pc' = "metrics"
    /\ UNCHANGED <<historicalData, results, strategyName, params, i, position,
                   cash, trades, portfolioValues, outcome, preData, preResults>>

-----------------------------------------------------------------------------
(* BacktestEngine: meanReversionStrategy *)

meanReversionBar ==
    /\ pc = "strategy"
    /\ strategyName = "meanReversion"
    /\ i < Len(historicalData)
    /\ LET data == historicalData
           lookback == OrDefault(params.lookback, DEFAULT_PERIOD)
           zScoreThreshold == OrDefault(params.zScoreThreshold, DEFAULT_Z)
           prices == Slice(Closes(data), i - lookback, i)
           close == data[i + 1].close
           shares == buyShares(cash, close)
       IN  /\ IF meanReversionBuySignal(position, prices, close, zScoreThreshold)
              THEN IF shares > 0
                   THEN /\ position' = shares
                        /\ cash' = cash - shares * close
                        /\ trades' = Append(trades, Trade(i, "BUY", close, shares))
                   ELSE UNCHANGED <<position, cash, trades>>
              ELSE IF meanReversionSellSignal(position, prices, close,
                                              zScoreThreshold)
                   THEN /\ cash' = sellProceeds(cash, position, close)
                        /\ trades' = Append(trades,
                                       Trade(i, "SELL", close, position))
                        /\ position' = positionAfterSell(position)
                   ELSE UNCHANGED <<position, cash, trades>>
           /\ portfolioValues' = Append(portfolioValues,
                                   Value(i, position' * close + cash'))
    /\ i' = i + 1
    /\ UNCHANGED <<historicalData, results, pc, strategyName, params,
                   finalValue, outcome, preData, preResults>>

meanReversionReturn ==
    /\ pc = "strategy"
    /\ strategyName = "meanReversion"
    /\ i >= Len(historicalData)
    /\ finalValue' = position * historicalData[Len(historicalData)].close + cash
    /\ pc' = "metrics"
    /\ UNCHANGED <<historicalData, results, strategyName, params, i, position,
                   cash, trades, portfolioValues, outcome, preData, preResults>>

-----------------------------------------------------------------------------
(* BacktestEngine: macdStrategy *)

macdData ==
    calculateMACD(historicalData,
                  OrDefault(params.fastPeriod, DEFAULT_FAST),
                  OrDefault(params.slowPeriod, DEFAULT_SLOW),
                  OrDefault(params.signalPeriod, DEFAULT_SIGNAL))

\* a bar whose signal is falsy: `continue`, nothing is traded or recorded
macdSkip ==
    /\ pc = "strategy"
    /\ strategyName = "macdCrossover"
    /\ i < Len(historicalData)
    /\ macdSkipBar(macdData[i + 1])
    /\ i' = i + 1
    /\ UNCHANGED <<historicalData, results, pc, strategyName, params, position,
                   cash, trades, portfolioValues, finalValue, outcome, preData,
                   preResults>>

macdBar ==
    /\ pc = "strategy"
    /\ strategyName = "macdCrossover"
    /\ i < Len(historicalData)
    /\ ~macdSkipBar(macdData[i + 1])
    /\ LET macd == macdData[i + 1]
           shares == buyShares(cash, macd.price)
       IN  /\ IF macdBuySignal(position, macdData, i)
              THEN IF shares > 0
                   THEN /\ position' = shares
                        /\ cash' = cash - shares * macd.price
                        /\ trades' = Append(trades,
                                       Trade(macd.date, "BUY", macd.price, shares))
                   ELSE UNCHANGED <<position, cash, trades>>
              ELSE IF macdSellSignal(position, macdData, i)
                   THEN /\ cash' = sellProceeds(cash, position, macd.price)
                        /\ trades' = Append(trades,
                                       Trade(macd.date, "SELL", macd.price,
                                             position))
                        /\ position' = positionAfterSell(position)
                   ELSE UNCHANGED <<position, cash, trades>>
           /\ portfolioValues' = Append(portfolioValues,
                                   Value(macd.date, position' * macd.price + cash'))
    /\ i' = i + 1
    /\ UNCHANGED <<historicalData, results, pc, strategyName, params,
                   finalValue, outcome, preData, preResults>>

macdReturn ==
    /\ pc = "strategy"
    /\ strategyName = "macdCrossover"
    /\ i >= Len(historicalData)
    /\ finalValue' = position * macdData[Len(macdData)].price + cash
    /\ pc' = "metrics"
    /\ UNCHANGED <<historicalData, results, strategyName, params, i, position,
                   cash, trades, portfolioValues, outcome, preData, preResults>>

-----------------------------------------------------------------------------
(* BacktestEngine: calculatePerformanceMetrics *)

\* the win-rate loop: [buyPrice (0: null), winningTrades, totalClosedTrades]
RECURSIVE winLoop(_, _, _, _, _)
winLoop(ts, j, buyPrice, winning, closed) ==
    IF j > Len(ts) THEN [winningTrades |-> winning, totalClosedTrades |-> closed]
    ELSE IF ts[j].action = "BUY"
         THEN winLoop(ts, j + 1, ts[j].price, winning, closed)
         ELSE IF ts[j].action = "SELL" /\ buyPrice # 0
              THEN winLoop(ts, j + 1, 0,
                           IF ts[j].price > buyPrice THEN winning + 1 ELSE winning,
                           closed + 1)
              ELSE winLoop(ts, j + 1, buyPrice, winning, closed)

\* (x * 100).toFixed(2) for x = num / den >= 0, in hundredths of a percent
toFixed2Percent(num, den) == (2 * num * 10000 + den) \div (2 * den)

\* winRate = totalClosedTrades > 0 ? winningTrades / totalClosedTrades : 0
winRateOf(winning, closed) ==
    IF closed > 0 THEN toFixed2Percent(winning, closed) ELSE 0

\* a win rate over all trades instead of over the closed pairs
calculatePerformanceMetrics_PerTrade(ts) ==
    LET w == winLoop(ts, 1, 0, 0, 0)
    IN  [totalTrades |-> Len(ts),
         winningTrades |-> w.winningTrades,
         totalClosedTrades |-> Len(ts),
         winRate |-> winRateOf(w.winningTrades, Len(ts))]

\* calculatePerformanceMetrics: the counts of the trades and the win rate
calculatePerformanceMetrics(ts) ==
    LET w == winLoop(ts, 1, 0, 0, 0)
    IN  [totalTrades |-> Len(ts),
         winningTrades |-> w.winningTrades,
         totalClosedTrades |-> w.totalClosedTrades,
         winRate |-> winRateOf(w.winningTrades, w.totalClosedTrades)]

\* the returns of the equity curve are all the same number: the sum of
\* their squared distances from avgReturn is 0
equalReturns(values) ==
    \A j, k \in 1..(Len(values) - 1) :
        values[j + 1].value * values[k].value
            = values[k + 1].value * values[j].value

\* the equity curve never moves: every return is 0
flatCurve(values) == \A k \in 1..Len(values) : values[k].value = values[1].value

\* std: "NaN" for no return at all (avgReturn is 0 / 0), "zero" or
\* "positive" otherwise.  Three or more equal non-zero returns have an exact
\* spread of 0, which the rounding of their mean may or may not keep.
stdOutcomes(values) ==
    IF Len(values) < 2 THEN {"NaN"}
    ELSE IF ~equalReturns(values) THEN {"positive"}
    ELSE IF flatCurve(values) \/ Len(values) <= 3 THEN {"zero"}
    ELSE {"zero", "positive"}

\* sharpeRatio = (annualizedReturn - 0.02) / (std * Math.sqrt(252)): over a
\* zero std it is an infinity with the sign of annualizedReturn - 0.02,
\* which is negative when nothing was gained and left open otherwise
sharpeOutcomes(std, theFinalValue, initialCapital) ==
    IF std = "NaN" THEN {"NaN"}
    ELSE IF std = "positive" THEN {"finite"}
    ELSE IF theFinalValue <= initialCapital THEN {"-Infinity"}
    ELSE {"Infinity", "-Infinity"}

\* totalReturn = (finalValue - initialCapital) / initialCapital, as
\* (totalReturn * 100).toFixed(2) prints it: a sign and hundredths of a
\* percent
totalReturnOf(theFinalValue, initialCapital) ==
    [negative |-> theFinalValue < initialCapital,
     hundredths |-> IF theFinalValue < initialCapital
                    THEN toFixed2Percent(initialCapital - theFinalValue,
                                         initialCapital)
                    ELSE toFixed2Percent(theFinalValue - initialCapital,
                                         initialCapital)]

\* the record calculatePerformanceMetrics returns: the counts of the trades
\* with the sharpeRatio, the volatility (std * Math.sqrt(252) * 100) and the
\* totalReturn
metricsRecord(counts, sharpeRatio, std, totalReturn) ==
    [totalTrades |-> counts.totalTrades,
     totalReturn |-> totalReturn,
     winningTrades |-> counts.winningTrades,
     totalClosedTrades |-> counts.totalClosedTrades,
     winRate |-> counts.winRate,
     sharpeRatio |-> sharpeRatio,
     volatility |-> std]

\* an empty equity curve: `let peak = values[0].value` throws a TypeError,
\* after historicalData may have been replaced and before results is stored
metricsThrow ==
    /\ pc = "metrics"
    /\ Len(portfolioValues) = 0
    /\ outcome' = "thrown"
    /\ pc' = "idle"
    /\ resetLocals
    /\ UNCHANGED <<historicalData, results, strategyName, params, preData,
                   preResults>>

\* the metrics are computed and the result is stored and returned
metricsReturn ==
    /\ pc = "metrics"
    /\ Len(portfolioValues) > 0
    /\ \E std \in stdOutcomes(portfolioValues) :
         \E sharpeRatio \in sharpeOutcomes(std, finalValue,
                                OrDefault(params.initialCapital,
                                          DEFAULT_CAPITAL)) :
            results' = [strategy |-> strategyName,
                        trades |-> trades,
                        portfolioValues |-> portfolioValues,
                        finalValue |-> finalValue,
                        metrics |-> metricsRecord(
                                        calculatePerformanceMetrics(trades),
                                        sharpeRatio, std,
                                        totalReturnOf(finalValue,
                                            OrDefault(params.initialCapital,
                                                      DEFAULT_CAPITAL)))]
    /\ outcome' = "returned"
    /\ pc' = "idle"
    /\ resetLocals
    /\ UNCHANGED <<historicalData, strategyName, params, preData, preResults>>

-----------------------------------------------------------------------------
(* ProfessionalRiskAssessment                                              *)
(*                                                                         *)
(* A component score is carried in 1/1000 point, the weighted total in     *)
(* 1/100000 point (weights in percent).  Inputs: beta, sentimentVolatility, *)
(* avgCorrelation and contagionIndicator in hundredths, bidAskSpread in    *)
(* 1/10000 (so spread * 10000 is the number itself), position weights in   *)
(* percent.  0 stands for a missing (or falsy) optional field.             *)

Point == 100 * 1000

\* this.riskLevels, in the order of Object.entries
riskLevels ==
    << [key |-> "MINIMAL",  lo |-> 0,  hi |-> 20,  label |-> "Minimal Risk"],
       [key |-> "LOW",      lo |-> 20, hi |-> 40,  label |-> "Low Risk"],
       [key |-> "MODERATE", lo |-> 40, hi |-> 60,  label |-> "Moderate Risk"],
       [key |-> "ELEVATED", lo |-> 60, hi |-> 75,  label |-> "Elevated Risk"],
       [key |-> "HIGH",     lo |-> 75, hi |-> 90,  label |-> "High Risk"],
       [key |-> "EXTREME",  lo |-> 90, hi |-> 100, label |-> "Extreme Risk"] >>

\* the record the loop of getRiskLevel returns for band k: { key, ...level }
levelWithKey(k) == riskLevels[k]

\* `return this.riskLevels.EXTREME`: the band's record itself, which has no
\* key property
levelWithoutKey ==
    [key |-> "undefined", lo |-> riskLevels[6].lo, hi |-> riskLevels[6].hi,
     label |-> riskLevels[6].label]

RECURSIVE levelLoop(_, _)
levelLoop(riskScore, k) ==
    IF k > Len(riskLevels) THEN levelWithoutKey
    ELSE IF riskScore >= riskLevels[k].lo * Point
            /\ riskScore < riskLevels[k].hi * Point
         THEN levelWithKey(k)
         ELSE levelLoop(riskScore, k + 1)

\* getRiskLevel(riskScore), riskScore in 1/100000 point
getRiskLevel(riskScore) == levelLoop(riskScore, 1)

\* calculateReturns over the price array, over the common denominator
\* returnsDenominator: return j is returnsNumerators[j] / returnsDenominator
RECURSIVE Product(_)
Product(q) == IF q = <<>> THEN 1 ELSE Head(q) * Product(Tail(q))

returnsDenominator(data) ==
    IF Len(data) < 2 THEN 1 ELSE Product(SubSeq(data, 1, Len(data) - 1))

calculateReturns(data) ==
    IF Len(data) < 2 THEN <<>>
    ELSE [j \in 1..(Len(data) - 1) |->
            ((data[j + 1] - data[j]) * returnsDenominator(data)) \div data[j]]

\* calculateVolatility(returns) < pct / 100.  No return: the mean is 0 / 0,
\* the volatility NaN and every comparison false.
volatilityBelow(data, pct) ==
    LET r == calculateReturns(data)
        n == Len(r)
        d == returnsDenominator(data)
        q == SumSeq([j \in 1..n |-> (n * r[j] - SumSeq(r)) * (n * r[j] - SumSeq(r))])
    IN  n > 0 /\ q * 10000 < pct * pct * n * n * n * d * d

\* the beta read without its default
calculatePortfolioBeta_NoDefault(thePortfolio) == thePortfolio.beta

\* the beta of the first call kept for the calls after it
calculatePortfolioBeta_Remembered(thePortfolio) ==
    IF riskCall = "none" THEN OrDefault(thePortfolio.beta, 100)
    ELSE 100

\* calculatePortfolioBeta: portfolio.beta || 1.0
calculatePortfolioBeta(thePortfolio) == OrDefault(thePortfolio.beta, 100)

Abs(x) == IF x < 0 THEN -x ELSE x

\* calculateMarketRisk.  marketData itself goes to calculateReturns: its
\* indexed elements are the prices, and a plain object has none.
calculateMarketRisk(marketData, thePortfolio) ==
    LET beta == calculatePortfolioBeta(thePortfolio)
        maxStressLoss == Max(Max(20, 10), 15)
        volPoints == IF volatilityBelow(marketData.elements, 10) THEN 10
                     ELSE IF volatilityBelow(marketData.elements, 20) THEN 20
                     ELSE IF volatilityBelow(marketData.elements, 30) THEN 30
                     ELSE 40
        betaPoints == IF Abs(beta - 100) < 30 THEN 10
                      ELSE IF Abs(beta - 100) < 60 THEN 20
                      ELSE 30
        riskScore == (volPoints + betaPoints) * 1000 + maxStressLoss * 150 * 10
    IN  Min(100 * 1000, riskScore)

\* calculateDiversification: 10000 * (1 - herfindahl), weights in percent;
\* `portfolio.assets?.map(a => a.weight) || [1]`
calculateDiversification(thePortfolio) ==
    LET weights == IF thePortfolio.hasAssets THEN thePortfolio.assets ELSE <<100>>
        herfindahl == SumSeq([j \in 1..Len(weights) |-> weights[j] * weights[j]])
    IN  10000 - herfindahl

\* calculateCreditRisk
calculateCreditRisk(thePortfolio) ==
    LET creditScore == 30 * 1000
                       + (IF thePortfolio.hasHighYield THEN 20 * 1000 ELSE 0)
                       + (IF thePortfolio.hasEmergingMarkets THEN 15 * 1000 ELSE 0)
                       + (IF thePortfolio.hasCrypto THEN 25 * 1000 ELSE 0)
                       - calculateDiversification(thePortfolio)
    IN  Max(0, Min(100 * 1000, creditScore))

\* calculateAverageVolume: marketData.avgVolume || 1000000
calculateAverageVolume(marketData) == OrDefault(marketData.avgVolume, 1000000)

\* calculateLiquidityRisk; a missing portfolio.size makes the ratio NaN,
\* which lands in the last bucket like a size of 0
calculateLiquidityRisk(marketData, thePortfolio) ==
    LET avgVolume == calculateAverageVolume(marketData)
        size == thePortfolio.size
        volumePoints == IF size * 10 > avgVolume THEN 40
                        ELSE IF size * 20 > avgVolume THEN 30
                        ELSE IF size * 100 > avgVolume THEN 20
                        ELSE 10
        spread == OrDefault(marketData.bidAskSpread, 10)
        liquidityScore == (20 + volumePoints) * 1000 + Min(40, spread) * 1000
    IN  Min(100 * 1000, liquidityScore)

\* the sum of calculateSentimentRisk before its final Math.min
sentimentSum(newsAnalysis) ==
    LET bearishScore == newsAnalysis.bearish
        volatilityOfSentiment == OrDefault(newsAnalysis.sentimentVolatility, 30)
    IN  bearishScore * 1000 + volatilityOfSentiment * 200
        + (IF bearishScore > 70 \/ newsAnalysis.bullish > 70 THEN 15 * 1000 ELSE 0)

\* the sentiment score without the Math.min(100, ...)
calculateSentimentRisk_Unclamped(newsAnalysis) ==
    IF ~newsAnalysis.present THEN 50 * 1000 ELSE sentimentSum(newsAnalysis)

\* calculateSentimentRisk
calculateSentimentRisk(newsAnalysis) ==
    IF ~newsAnalysis.present THEN 50 * 1000
    ELSE Min(100 * 1000, sentimentSum(newsAnalysis))

\* calculateSystemicRisk
calculateSystemicRisk(marketData) ==
    LET avgCorrelation == OrDefault(marketData.avgCorrelation, 40)
        contagionRisk == OrDefault(marketData.contagionIndicator, 30)
        systemicScore == 30 * 1000
                         + (IF avgCorrelation > 70 THEN 40 * 1000
                            ELSE IF avgCorrelation > 50 THEN 25 * 1000
                            ELSE IF avgCorrelation > 30 THEN 15 * 1000
                            ELSE 0)
                         + contagionRisk * 300
    IN  Min(100 * 1000, systemicScore)

\* Math.round of a total in 1/100000 point, in points
roundTotal(total) == (total + Point \div 2) \div Point

\* the overall advisory of generateRiskRecommendations, by level.key
overallAdvisory(level) ==
    IF level.key = "MINIMAL" \/ level.key = "LOW" THEN "opportunity"
    ELSE IF level.key = "MODERATE" THEN "maintain"
    ELSE IF level.key = "ELEVATED" THEN "caution"
    ELSE "urgent"

\* the credit advisory pushed before the liquidity one
generateRiskRecommendations_CreditFirst(totalRisk, components) ==
    <<overallAdvisory(getRiskLevel(totalRisk))>>
    \o (IF components.market > 70 * 1000 THEN <<"hedging">> ELSE <<>>)
    \o (IF components.credit > 65 * 1000 THEN <<"quality">> ELSE <<>>)
    \o (IF components.liquidity > 60 * 1000 THEN <<"liquidity">> ELSE <<>>)
    \o (IF components.systemic > 70 * 1000 THEN <<"diversification">> ELSE <<>>)

\* generateRiskRecommendations: the advisories' types, in order
generateRiskRecommendations(totalRisk, components) ==
    <<overallAdvisory(getRiskLevel(totalRisk))>>
    \o (IF components.market > 70 * 1000 THEN <<"hedging">> ELSE <<>>)
    \o (IF components.liquidity > 60 * 1000 THEN <<"liquidity">> ELSE <<>>)
    \o (IF components.credit > 65 * 1000 THEN <<"quality">> ELSE <<>>)
    \o (IF components.systemic > 70 * 1000 THEN <<"diversification">> ELSE <<>>)

\* calculateRiskScore
calculateRiskScore(marketData, thePortfolio, newsAnalysis) ==
    LET components ==
            [market |-> calculateMarketRisk(marketData, thePortfolio),
             credit |-> calculateCreditRisk(thePortfolio),
             liquidity |-> calculateLiquidityRisk(marketData, thePortfolio),
             sentiment |-> calculateSentimentRisk(newsAnalysis),
             systemic |-> calculateSystemicRisk(marketData)]
        totalRisk == components.market * 35 + components.credit * 20
                     + components.liquidity * 15 + components.sentiment * 15
                     + components.systemic * 15
    IN  [totalRisk |-> roundTotal(totalRisk),
         components |-> components,
         level |-> getRiskLevel(totalRisk),
         recommendations |-> generateRiskRecommendations(totalRisk, components)]

\* the inputs the scorer is called with: price arrays without a return, with
\* volatility 0, 0.125, 0.225 and 0.75; optional fields in their ranges or
\* missing
RiskPrices == {<<>>, <<4, 4>>, <<4, 5, 5>>, <<4, 5, 4>>, <<4, 8, 4>>}

MarketDataChoices ==
    {[elements |-> ps, avgVolume |-> v, bidAskSpread |-> sp,
      avgCorrelation |-> c, contagionIndicator |-> g] :
        ps \in RiskPrices, v \in {0, 4000000}, sp \in {0, 50},
        c \in {0, -50, 60, 80}, g \in {0, 100}}

PortfolioChoices ==
    {[beta |-> b, hasHighYield |-> f[1], hasEmergingMarkets |-> f[2],
      hasCrypto |-> f[3], hasAssets |-> a[1], assets |-> a[2], size |-> z] :
        b \in {0, 140, 170},
        f \in {<<FALSE, FALSE, FALSE>>, <<TRUE, FALSE, FALSE>>,
               <<TRUE, TRUE, TRUE>>},
        a \in {<<FALSE, <<>>>>, <<TRUE, <<100>>>>, <<TRUE, <<50, 50>>>>},
        z \in {0, 200000}}

NoNews == [present |-> FALSE, bearish |-> 0, bullish |-> 0,
           sentimentVolatility |-> 0]

NewsChoices ==
    {NoNews}
    \cup {[present |-> TRUE, bearish |-> n[1], bullish |-> n[2],
           sentimentVolatility |-> n[3]] :
            n \in {<<0, 0, 0>>, <<50, 80, 0>>, <<80, 0, 50>>, <<100, 0, 100>>}}

\* scores getRiskLevel is asked about directly: every half point of [0,100]
LevelScores == {k * (Point \div 2) : k \in 0..200}

NoRiskInput ==
    [marketData |-> [elements |-> <<>>, avgVolume |-> 0, bidAskSpread |-> 0,
                     avgCorrelation |-> 0, contagionIndicator |-> 0],
     portfolio |-> [beta |-> 0, hasHighYield |-> FALSE,
                    hasEmergingMarkets |-> FALSE, hasCrypto |-> FALSE,
                    hasAssets |-> FALSE, assets |-> <<>>, size |-> 0],
     newsAnalysis |-> NoNews,
     riskScore |-> 0]

NoRiskResult ==
    [totalRisk |-> 0,
     components |-> [market |-> 0, credit |-> 0, liquidity |-> 0,
                     sentiment |-> 0, systemic |-> 0],
     level |-> levelWithoutKey,
     recommendations |-> <<>>]

RiskInit ==
    /\ riskCall = "none"
    /\ riskInput = NoRiskInput
    /\ riskResult = NoRiskResult

\* a call of calculateRiskScore.  The scorer keeps nothing between calls, so
\* a behaviour follows one call from the constructed object.
CalculateRiskScore ==
    /\ riskCall = "none"
    /\ \E m \in MarketDataChoices, pf \in PortfolioChoices, na \in NewsChoices :
         /\ riskInput' = [marketData |-> m, portfolio |-> pf,
                          newsAnalysis |-> na, riskScore |-> 0]
         /\ riskResult' = calculateRiskScore(m, pf, na)
    /\ riskCall' = "calculateRiskScore"

\* the call of calculateRiskScore made once more on the same object with
\* the same three arguments
RepeatCalculateRiskScore ==
    /\ riskCall = "calculateRiskScore"
    /\ riskResult' = calculateRiskScore(riskInput.marketData,
                                        riskInput.portfolio,
                                        riskInput.newsAnalysis)
    /\ riskCall' = "repeated"
    /\ UNCHANGED riskInput

\* a call of getRiskLevel
GetRiskLevel ==
    /\ riskCall = "none"
    /\ \E sc \in LevelScores :
         /\ riskInput' = [NoRiskInput EXCEPT !.riskScore = sc]
         /\ riskResult' = [NoRiskResult EXCEPT !.level = getRiskLevel(sc)]
    /\ riskCall' = "getRiskLevel"

-----------------------------------------------------------------------------
(* The portfolio pages: PortfolioManager of portfolio-pro.js and the        *)
(* `portfolio` array of portfolio.js.  One page is open in a behaviour.     *)
(*                                                                         *)
(* A price of PortfolioManager is a number n / d in lowest terms with       *)
(* d > 0; d = 0 stands for the values a division by zero leaves:            *)
(* n = 1 Infinity, n = -1 -Infinity, n = 0 NaN.  A text field parsed by     *)
(* parseFloat is <<>> for NaN and <<v>> for the number v.                   *)

MaxOps == 3

Sign(x) == IF x > 0 THEN 1 ELSE IF x < 0 THEN -1 ELSE 0

RECURSIVE GCD(_, _)
GCD(a, b) == IF b = 0 THEN a ELSE GCD(b, a % b)

Num(n, d) ==
    IF d = 0 THEN [n |-> Sign(n), d |-> 0]
    ELSE LET g == GCD(Abs(n), Abs(d))
         IN  [n |-> (Sign(d) * n) \div g, d |-> Abs(d) \div g]

NaN == [n |-> 0, d |-> 0]

\* !x of a number: 0 and NaN are falsy
NumFalsy(x) == x.n = 0

\* x || y
NumOr(x, y) == IF NumFalsy(x) THEN y ELSE x

\* q * x, q an integer
NumTimesInt(q, x) ==
    IF x.d = 0
    THEN IF x.n = 0 \/ q = 0 THEN NaN ELSE [n |-> Sign(q) * x.n, d |-> 0]
    ELSE Num(q * x.n, x.d)

\* x + y
NumPlus(x, y) ==
    IF x.d # 0 /\ y.d # 0 THEN Num(x.n * y.d + y.n * x.d, x.d * y.d)
    ELSE IF (x.d = 0 /\ x.n = 0) \/ (y.d = 0 /\ y.n = 0) THEN NaN
    ELSE IF x.d = 0 /\ y.d = 0 THEN (IF x.n = y.n THEN x ELSE NaN)
    ELSE IF x.d = 0 THEN x ELSE y

\* x / q, q an integer; a zero q is the +0 a sum of opposite quantities gives
NumOverInt(x, q) ==
    IF x.d = 0 THEN (IF q < 0 THEN [n |-> -x.n, d |-> 0] ELSE x)
    ELSE IF q = 0 THEN [n |-> Sign(x.n), d |-> 0]
    ELSE Num(x.n * Sign(q), x.d * Abs(q))

\* x * f, f a positive finite number
NumTimes(x, f) == IF x.d = 0 THEN x ELSE Num(x.n * f.n, x.d * f.d)

\* x > 0
NumPositive(x) == x.n > 0

\* parseFloat of a price field
parsePrice(field) == IF field = <<>> THEN NaN ELSE Num(field[1], 1)

\* !q of a parsed quantity
QuantityFalsy(q) == q = <<>> \/ q[1] = 0

\* String.prototype.toUpperCase on the symbols typed
toUpperCase(str) ==
    IF str = "aapl" THEN "AAPL" ELSE IF str = "xyz" THEN "XYZ" ELSE str

\* getBasePrice: the table's price, or 100 for a symbol it does not list
getBasePrice(symbol) == IF symbol = "AAPL" THEN Num(371, 2) ELSE Num(100, 1)

\* fetchHistoricalPrice: basePrice * randomVariation
fetchHistoricalPrice(symbol, randomVariation) ==
    NumTimes(getBasePrice(symbol), randomVariation)

\* 0.9 + Math.random() * 0.2 lies in [0.9, 1.1)
RandomVariations == {Num(9, 10), Num(1, 1)}

\* 1 + (Math.random() - 0.5) * 0.04 lies in [0.98, 1.02)
DailyFactors == {Num(49, 50), Num(1, 1)}

SymbolInputs == {"", "aapl", "xyz"}
QuantityInputs == {<<>>, <<0>>, <<-1>>, <<1>>}
DateInputs == {"", "2024-01-02"}
PriceInputs == {<<>>, <<0>>, <<-5>>, <<50>>}

\* the position with the symbol, 0 when positions.find returns undefined
findPosition(ps, symbol) ==
    IF \E k \in 1..Len(ps) : ps[k].symbol = symbol
    THEN CHOOSE k \in 1..Len(ps) :
            /\ ps[k].symbol = symbol
            /\ \A j \in 1..(k - 1) : ps[j].symbol # symbol
    ELSE 0

\* array.filter(p => p.id !== id)
withoutId(q, id) == SelectSeq(q, LAMBDA el : el.id # id)

\* the loop of refreshPrices; changes[k] is 1 + dailyChange of position k
refreshPrices(ps, changes) ==
    [k \in 1..Len(ps) |->
        [ps[k] EXCEPT !.currentPrice =
            NumTimes(NumOr(ps[k].currentPrice, ps[k].buyPrice), changes[k])]]

\* the averaging branch of addPosition
mergePosition(existing, quantity, buyPrice) ==
    LET totalCost == NumPlus(NumTimesInt(existing.quantity, existing.buyPrice),
                             NumTimesInt(quantity, NumOr(buyPrice, Num(100, 1))))
        totalQuantity == existing.quantity + quantity
    IN  [existing EXCEPT !.quantity = totalQuantity,
                         !.buyPrice = NumOverInt(totalCost, totalQuantity)]

\* the position addPosition pushes
newPosition(id, symbol, quantity, buyPrice, randomVariation) ==
    LET price == IF NumFalsy(buyPrice)
                 THEN NumOr(fetchHistoricalPrice(symbol, randomVariation),
                            Num(100, 1))
                 ELSE buyPrice
    IN  [id |-> id, symbol |-> symbol, quantity |-> quantity,
         buyPrice |-> price, currentPrice |-> price]

\* the factors one refreshPrices draws, one for each of n positions
Changes(n) == [1..n -> DailyFactors]

\* addPosition, with the refreshPrices it awaits before it returns
addPosition ==
    /\ page = "portfolio-pro"
    /\ \E symbolInput \in SymbolInputs, quantityInput \in QuantityInputs,
          buyDate \in DateInputs, buyPriceInput \in PriceInputs,
          confirmed \in BOOLEAN :
         LET symbol == toUpperCase(symbolInput)
             buyPrice == parsePrice(buyPriceInput)
             k == findPosition(positions, symbol)
         IN  IF symbol = "" \/ QuantityFalsy(quantityInput) \/ buyDate = ""
             THEN UNCHANGED <<positions, nextId, ops>>
             ELSE IF k # 0 /\ ~confirmed
             THEN UNCHANGED <<positions, nextId, ops>>
             ELSE /\ ops < MaxOps
                  /\ ops' = ops + 1
                  /\ IF k # 0
                     THEN /\ \E changes \in Changes(Len(positions)) :
                               positions' = refreshPrices(
                                  [positions EXCEPT ![k] =
                                      mergePosition(positions[k],
                                                    quantityInput[1], buyPrice)],
                                  changes)
                          /\ UNCHANGED nextId
                     ELSE /\ \E randomVariation \in RandomVariations,
                                changes \in Changes(Len(positions) + 1) :
                               positions' = refreshPrices(
                                  Append(positions,
                                         newPosition(nextId, symbol,
                                                     quantityInput[1], buyPrice,
                                                     randomVariation)),
                                  changes)
                          /\ nextId' = nextId + 1
    /\ UNCHANGED <<page, portfolio>>

\* removePosition from a position's button
removePosition ==
    /\ page = "portfolio-pro"
    /\ ops < MaxOps
    /\ \E k \in 1..Len(positions), confirmed \in BOOLEAN :
         LET positionId == positions[k].id
         IN  IF confirmed
             THEN positions' = withoutId(positions, positionId) /\ ops' = ops + 1
             ELSE UNCHANGED <<positions, ops>>
    /\ UNCHANGED <<page, portfolio, nextId>>

\* editPosition from a position's button: the form is filled and the
\* position removed, to be added again
editPosition ==
    /\ page = "portfolio-pro"
    /\ ops < MaxOps
    /\ \E k \in 1..Len(positions) :
         LET positionId == positions[k].id
         IN  positions' = withoutId(positions, positionId)
    /\ ops' = ops + 1
    /\ UNCHANGED <<page, portfolio, nextId>>

\* refreshPrices from the refresh timer
autoRefresh ==
    /\ page = "portfolio-pro"
    /\ ops < MaxOps
    /\ positions # <<>>
    /\ \E changes \in Changes(Len(positions)) :
         positions' = refreshPrices(positions, changes)
    /\ ops' = ops + 1
    /\ UNCHANGED <<page, portfolio, nextId>>

\* ---- portfolio.js: amounts and prices are the integers typed ----

\* String.prototype.toLowerCase on the names typed
toLowerCase(str) == IF str = "AAPL" THEN "aapl" ELSE str

AssetTypes == {"stock", "crypto"}
AssetNames == {"", "AAPL", "aapl"}
AmountInputs == {<<>>, <<0>>, <<-1>>, <<1>>, <<2>>, <<2000000000>>}
AssetPriceInputs == {<<>>, <<0>>, <<-5>>, <<50>>, <<60>>, <<2000000>>}

\* the validation of submitAsset passes
submitAssetValid(assetName, assetAmount, assetPrice) ==
    /\ assetName # ""
    /\ ~(assetAmount = <<>> \/ assetAmount[1] <= 0)
    /\ ~(assetAmount[1] > 1000000000)
    /\ ~(assetPrice = <<>> \/ assetPrice[1] <= 0)
    /\ ~(assetPrice[1] > 1000000)

\* portfolio.find of the duplicate check
hasDuplicate(assetName, assetType) ==
    \E k \in 1..Len(portfolio) :
        /\ toLowerCase(portfolio[k].name) = toLowerCase(assetName)
        /\ portfolio[k].type = assetType

\* portfolio.findIndex(a => a.id === assetId), 0 for -1
findIndex(assetId) ==
    IF \E k \in 1..Len(portfolio) : portfolio[k].id = assetId
    THEN CHOOSE k \in 1..Len(portfolio) :
            /\ portfolio[k].id = assetId
            /\ \A j \in 1..(k - 1) : portfolio[j].id # assetId
    ELSE 0

\* the ids a button of the page can still carry
KnownIds == 1..(nextId - 1) \cup {portfolio[k].id : k \in 1..Len(portfolio)}

\* submitAsset() from the Add button
submitAsset ==
    /\ page = "portfolio"
    /\ \E assetType \in AssetTypes, assetName \in AssetNames,
          assetAmount \in AmountInputs, assetPrice \in AssetPriceInputs,
          confirmed \in BOOLEAN :
         IF ~submitAssetValid(assetName, assetAmount, assetPrice)
         THEN UNCHANGED <<portfolio, nextId, ops>>
         ELSE IF hasDuplicate(assetName, assetType) /\ ~confirmed
         THEN UNCHANGED <<portfolio, nextId, ops>>
         ELSE /\ ops < MaxOps
              /\ portfolio' = Append(portfolio,
                    [id |-> nextId, type |-> assetType, name |-> assetName,
                     amount |-> assetAmount[1], buyPrice |-> assetPrice[1],
                     currentPrice |-> assetPrice[1]])
              /\ nextId' = nextId + 1
              /\ ops' = ops + 1
    /\ UNCHANGED <<page, positions>>

\* submitAsset(true, assetId) from the Update button editAsset sets up
submitAssetEdit ==
    /\ page = "portfolio"
    /\ \E assetId \in KnownIds, assetType \in AssetTypes,
          assetName \in AssetNames, assetAmount \in AmountInputs,
          assetPrice \in AssetPriceInputs :
         LET assetIndex == findIndex(assetId)
         IN  IF ~submitAssetValid(assetName, assetAmount, assetPrice)
             THEN UNCHANGED <<portfolio, ops>>
             ELSE IF assetIndex = 0
             THEN UNCHANGED <<portfolio, ops>>
             ELSE /\ ops < MaxOps
                  /\ portfolio' = [portfolio EXCEPT ![assetIndex] =
                        [@ EXCEPT !.type = assetType, !.name = assetName,
                                  !.amount = assetAmount[1],
                                  !.buyPrice = assetPrice[1],
                                  !.currentPrice =
                                      OrDefault(@, assetPrice[1])]]
                  /\ ops' = ops + 1
    /\ UNCHANGED <<page, positions, nextId>>

\* updateAssetPrice from an asset's button; the prompt is cancelled or
\* returns the text typed
updateAssetPrice ==
    /\ page = "portfolio"
    /\ \E k \in 1..Len(portfolio), cancelled \in BOOLEAN,
          price \in AssetPriceInputs :
         IF cancelled \/ price = <<>> \/ price[1] <= 0 \/ price[1] > 1000000
         THEN UNCHANGED <<portfolio, ops>>
         ELSE /\ ops < MaxOps
              /\ portfolio' = [portfolio EXCEPT ![k].currentPrice = price[1]]
              /\ ops' = ops + 1
    /\ UNCHANGED <<page, positions, nextId>>

\* removeFromPortfolio from an asset's button
removeFromPortfolio ==
    /\ page = "portfolio"
    /\ ops < MaxOps
    /\ \E k \in 1..Len(portfolio), confirmed \in BOOLEAN :
         IF confirmed
         THEN /\ portfolio' = withoutId(portfolio, portfolio[k].id)
              /\ ops' = ops + 1
         ELSE UNCHANGED <<portfolio, ops>>
    /\ UNCHANGED <<page, positions, nextId>>

\* the files a user can pick: isArray tells whether the text parses to an
\* object whose portfolio is an array
ImportedAsset(amount, buyPrice, currentPrice) ==
    [id |-> 100, type |-> "stock", name |-> "AAPL", amount |-> amount,
     buyPrice |-> buyPrice, currentPrice |-> currentPrice]

ImportFiles ==
    {[isArray |-> FALSE, portfolio |-> <<>>],
     [isArray |-> TRUE, portfolio |-> <<>>],
     [isArray |-> TRUE, portfolio |-> <<ImportedAsset(2, 50, 60)>>],
     [isArray |-> TRUE, portfolio |-> <<ImportedAsset(0, 50, 0)>>]}

\* importPortfolio: the onload callback of the reader
importPortfolio ==
    /\ page = "portfolio"
    /\ \E file \in ImportFiles :
         IF file.isArray
         THEN /\ ops < MaxOps
              /\ portfolio' = file.portfolio
              /\ ops' = ops + 1
         ELSE UNCHANGED <<portfolio, ops>>
    /\ UNCHANGED <<page, positions, nextId>>

\* no page is open
PortfolioIdle ==
    /\ page = "none"
    /\ positions = <<>>
    /\ portfolio = <<>>
    /\ nextId = 1
    /\ ops = 0

\* one of the two pages has loaded, with nothing saved
PortfolioInit ==
    /\ page \in {"portfolio", "portfolio-pro"}
    /\ positions = <<>>
    /\ portfolio = <<>>
    /\ nextId = 1
    /\ ops = 0

-----------------------------------------------------------------------------
(* QuantitativeAnalysisEngine.runMonteCarloSimulation                      *)
(*                                                                         *)
(* The random walk of one simulation is kept as the final value it ends    *)
(* on, drawn from FinalValues.  The statistics read the final values only  *)
(* after sorting them, so the results are kept as the number of paths that *)
(* ended on each value.  A mean is the pair of its sum and its count; a    *)
(* count of 0 is the NaN of 0 / 0.                                         *)

MaxSims == 40

FinalValues == 1..3

NoFinals == [v \in FinalValues |-> 0]

\* results.map(r => r.finalValue).sort((a, b) => a - b)
RECURSIVE Repeat(_, _)
Repeat(v, n) == IF n = 0 THEN <<>> ELSE <<v>> \o Repeat(v, n - 1)

RECURSIVE sortedFrom(_, _)
sortedFrom(finals, v) ==
    IF v \notin FinalValues THEN <<>>
    ELSE Repeat(v, finals[v]) \o sortedFrom(finals, v + 1)

sortedFinalValues(finals) == sortedFrom(finals, 1)

\* Math.floor(simulations * 0.05)
tailCount(n) == (n * 5) \div 100

\* the statistics of runMonteCarloSimulation; index k of the source's array
\* is index k + 1 here
statistics(finals, n) ==
    LET sorted == sortedFinalValues(finals)
        k == tailCount(n)
    IN  [expectedValue |-> [sum |-> SumSeq(sorted), count |-> n],
         VaR95 |-> sorted[k + 1],
         CVaR95 |-> [sum |-> SumSeq(SubSeq(sorted, 1, k)), count |-> k]]

NoStatistics ==
    [expectedValue |-> [sum |-> 0, count |-> 0], VaR95 |-> 0,
     CVaR95 |-> [sum |-> 0, count |-> 0]]

MCInit ==
    /\ mcPc = "idle"
    /\ simulations = 0
    /\ sim = 0
    /\ mcResults = NoFinals
    /\ mcReturn = NoStatistics

\* runMonteCarloSimulation is called
runMonteCarloSimulation ==
    /\ mcPc = "idle"
    /\ \E n \in 1..MaxSims : simulations' = n
    /\ sim' = 0
    /\ mcResults' = NoFinals
    /\ mcPc' = "simulate"
    /\ mcReturn' = NoStatistics

\* one pass of the loop over the simulations
simulatePath ==
    /\ mcPc = "simulate"
    /\ sim < simulations
    /\ \E finalValue_ \in FinalValues :
         mcResults' = [mcResults EXCEPT ![finalValue_] = @ + 1]
    /\ sim' = sim + 1
    /\ UNCHANGED <<mcPc, simulations, mcReturn>>

\* the statistics and the return
monteCarloReturn ==
    /\ mcPc = "simulate"
    /\ sim = simulations
    /\ mcReturn' = statistics(mcResults, simulations)
    /\ mcPc' = "idle"
    /\ UNCHANGED <<simulations, sim, mcResults>>

-----------------------------------------------------------------------------
(* quant-ui.js: runQuantAnalysis -> performMonteCarloSimulation            *)
(*                                                                         *)
(* A number is <<v>> and NaN (or a missing field) is <<>>.  expectedReturn *)
(* and volatility are in hundredths, so 0.08 is <<8>>.  The portfolio is    *)
(* the record runQuantAnalysis builds; its three numbers are drawn freely, *)
(* as they would be once they come from a stored portfolio.                *)

DEFAULT_CURRENT_VALUE == 1000000
DEFAULT_EXPECTED_RETURN == 8
DEFAULT_VOLATILITY == 15
DEFAULT_HORIZON == 252
DEFAULT_SIMULATIONS == 1000
MAX_SAMPLE_PATHS == 100

\* !x
IsFalsy(x) == x = <<>> \/ x[1] = 0

\* isNaN(x)
IsNaN(x) == x = <<>>

\* x <= 0, false for NaN
NonPositive(x) == x # <<>> /\ x[1] <= 0

\* the volatility check without its `<= 0`
volatilityInvalid_NoSignCheck(x) == IsFalsy(x) \/ IsNaN(x)

\* !currentValue || currentValue <= 0
currentValueInvalid(x) == IsFalsy(x) \/ NonPositive(x)

\* !expectedReturn || isNaN(expectedReturn)
expectedReturnInvalid(x) == IsFalsy(x) \/ IsNaN(x)

\* !volatility || isNaN(volatility) || volatility <= 0
volatilityInvalid(x) == IsFalsy(x) \/ IsNaN(x) \/ NonPositive(x)

\* !horizonDays || horizonDays <= 0, and the same test of numSimulations
countInvalid(x) == IsFalsy(x) \/ NonPositive(x)

\* the validation of mockPortfolio in runQuantAnalysis
validatePortfolio(pf) ==
    [currentValue |-> IF currentValueInvalid(pf.currentValue)
                      THEN <<DEFAULT_CURRENT_VALUE>> ELSE pf.currentValue,
     expectedReturn |-> IF expectedReturnInvalid(pf.expectedReturn)
                        THEN <<DEFAULT_EXPECTED_RETURN>> ELSE pf.expectedReturn,
     volatility |-> IF volatilityInvalid(pf.volatility)
                    THEN <<DEFAULT_VOLATILITY>> ELSE pf.volatility]

\* what performMonteCarloSimulation hands to the engine
engineArguments(pf, horizonDays, numSimulations) ==
    [portfolio |->
        [pf EXCEPT !.expectedReturn =
                       IF expectedReturnInvalid(@)
                       THEN <<DEFAULT_EXPECTED_RETURN>> ELSE @,
                   !.volatility =
                       IF volatilityInvalid(@)
                       THEN <<DEFAULT_VOLATILITY>> ELSE @],
     horizonDays |-> IF countInvalid(horizonDays)
                     THEN <<DEFAULT_HORIZON>> ELSE horizonDays,
     numSimulations |-> IF countInvalid(numSimulations)
                        THEN <<DEFAULT_SIMULATIONS>> ELSE numSimulations]

NoArguments ==
    [portfolio |-> [currentValue |-> <<>>, expectedReturn |-> <<>>,
                    volatility |-> <<>>],
     horizonDays |-> <<>>, numSimulations |-> <<>>]

\* results.paths.length: results.slice(0, 100) of one result per simulation
pathsLength(numSimulations) == Min(MAX_SAMPLE_PATHS, Max(numSimulations[1], 0))

\* performMonteCarloSimulation: the error of the record it returns ("none"
\* for a result), the arguments the engine was run with, and the
\* simulations and timeHorizon it reports
performMonteCarloSimulation(pf, horizonDays, numSimulations, engineReady) ==
    LET args == engineArguments(pf, horizonDays, numSimulations)
    IN  IF currentValueInvalid(pf.currentValue)
        THEN [error |-> "Invalid portfolio data", ran |-> FALSE,
              arguments |-> NoArguments]
        ELSE IF ~engineReady
        THEN [error |-> "Analysis engine not ready", ran |-> FALSE,
              arguments |-> NoArguments]
        ELSE IF pathsLength(args.numSimulations) = 0
        THEN [error |-> "Simulation failed to generate paths", ran |-> TRUE,
              arguments |-> args]
        ELSE [error |-> "none", ran |-> TRUE, arguments |-> args]

NoOutcome == [error |-> "none", ran |-> FALSE, arguments |-> NoArguments]

CurrentValues == {<<>>, <<0>>, <<-1>>, <<500000>>}
ExpectedReturns == {<<>>, <<0>>, <<-5>>, <<12>>}
Volatilities == {<<>>, <<0>>, <<-15>>, <<20>>}
Horizons == {<<>>, <<0>>, <<-1>>, <<30>>}
SimulationCounts == {<<>>, <<0>>, <<-1>>, <<10>>, <<5000>>}

NoQuantInput ==
    [portfolio |-> NoArguments.portfolio, horizonDays |-> <<>>,
     numSimulations |-> <<>>, engineReady |-> FALSE]

QuantInit ==
    /\ quantEngine = FALSE
    /\ quantCall = "none"
    /\ quantInput = NoQuantInput
    /\ quantOutcome = NoOutcome

\* the timer of DOMContentLoaded: quantEngine = new QuantitativeAnalysisEngine()
initQuantEngine ==
    /\ ~quantEngine
    /\ quantEngine' = TRUE
    /\ UNCHANGED <<quantCall, quantInput, quantOutcome>>

\* runQuantAnalysis with analysisType 'montecarlo'.  Nothing of one run is
\* kept for the next, so a behaviour follows one run.
runQuantAnalysis ==
    /\ quantCall = "none"
    /\ \E cv \in CurrentValues, er \in ExpectedReturns, vol \in Volatilities,
          timeHorizon \in Horizons, numSimulations \in SimulationCounts :
         LET mockPortfolio == [currentValue |-> cv, expectedReturn |-> er,
                               volatility |-> vol]
         IN  /\ quantInput' = [portfolio |-> mockPortfolio,
                               horizonDays |-> timeHorizon,
                               numSimulations |-> numSimulations,
                               engineReady |-> quantEngine]
             /\ quantOutcome' = performMonteCarloSimulation(
                                    validatePortfolio(mockPortfolio),
                                    timeHorizon, numSimulations, quantEngine)
    /\ quantCall' = "montecarlo"
    /\ UNCHANGED quantEngine

-----------------------------------------------------------------------------
(* portfolio-analysis.js: PortfolioAnalyzer                                *)
(*                                                                         *)
(* Numbers are the n / d of the portfolio pages.  A square root is not     *)
(* taken: a volatility is kept as the variance under the root, and a       *)
(* Sharpe ratio as the excess return over that volatility.  A missing      *)
(* field of an asset and a zero one are both 0: each is read through `||`. *)

MaxHoldings == 3

\* x - y
NumMinus(x, y) == NumPlus(x, NumTimesInt(-1, y))

\* x * y
NumProduct(x, y) ==
    IF x.d # 0 /\ y.d # 0 THEN Num(x.n * y.n, x.d * y.d)
    ELSE IF x.n = 0 \/ y.n = 0 THEN NaN
    ELSE [n |-> Sign(x.n) * Sign(y.n), d |-> 0]

\* x / y
NumOver(x, y) ==
    IF x.d # 0 /\ y.d # 0
    THEN (IF y.n = 0 THEN [n |-> Sign(x.n), d |-> 0]
          ELSE Num(x.n * y.d * Sign(y.n), x.d * Abs(y.n)))
    ELSE IF y.d # 0
    THEN (IF y.n < 0 THEN [n |-> -x.n, d |-> 0] ELSE x)
    ELSE IF x.d # 0 /\ y.n # 0 THEN Num(0, 1)
    ELSE NaN

\* x > y and x < y; false when either is NaN
NumGreater(x, y) ==
    /\ ~(x.d = 0 /\ x.n = 0)
    /\ ~(y.d = 0 /\ y.n = 0)
    /\ IF x.d # 0 /\ y.d # 0 THEN x.n * y.d > y.n * x.d
       ELSE IF x.d = 0 /\ y.d = 0 THEN x.n > y.n
       ELSE IF x.d = 0 THEN x.n > 0 ELSE y.n < 0

NumLess(x, y) == NumGreater(y, x)

RECURSIVE NumSum(_)
NumSum(q) ==
    IF q = <<>> THEN Num(0, 1)
    ELSE NumPlus(NumSum(SubSeq(q, 1, Len(q) - 1)), q[Len(q)])

riskFreeRate == Num(1, 50)
tradingDaysPerYear == 252

\* calculateTotalValue
calculateTotalValue(holdings) ==
    SumSeq([k \in 1..Len(holdings) |-> OrDefault(holdings[k].totalValue, 0)])

\* calculateReturns of PortfolioAnalyzer
calculateAssetReturns(holdings) ==
    [k \in 1..Len(holdings) |->
        LET asset == holdings[k]
            buyPrice == OrDefault(asset.buyPrice, asset.currentPrice)
            currentPrice == OrDefault(asset.currentPrice, buyPrice)
        IN  NumOver(Num(currentPrice - buyPrice, 1), Num(buyPrice, 1))]

\* calculateWeights
calculateWeights(holdings, totalValue) ==
    IF totalValue = 0 THEN [k \in 1..Len(holdings) |-> Num(0, 1)]
    ELSE [k \in 1..Len(holdings) |->
             NumOver(Num(OrDefault(holdings[k].totalValue, 0), 1),
                     Num(totalValue, 1))]

\* the mean of calculateVolatility, calculateSharpeRatio and the others
meanReturn(returns) == NumOverInt(NumSum(returns), Len(returns))

\* the variance of calculateVolatility
sampleVariance(returns) ==
    LET mean == meanReturn(returns)
        squaredDiffs == [k \in 1..Len(returns) |->
                            NumProduct(NumMinus(returns[k], mean),
                                       NumMinus(returns[k], mean))]
    IN  NumOverInt(NumSum(squaredDiffs), Len(returns) - 1)

ZeroVolatility == [kind |-> "zero", variance |-> Num(0, 1)]

\* calculateVolatility: the values it can return.  "residue" is the tiny
\* positive value left when the mean of three or more equal non-zero
\* returns is rounded away from them (0.1 + 0.1 + 0.1 is not 0.3).
calculateVolatility(returns) ==
    IF Len(returns) < 2 THEN {ZeroVolatility}
    ELSE LET variance == sampleVariance(returns)
         IN  IF variance.d = 0 THEN {[kind |-> "nan", variance |-> NaN]}
             ELSE IF variance.n # 0
             THEN {[kind |-> "positive", variance |-> variance]}
             ELSE IF Len(returns) = 2 \/ returns[1].n = 0
             THEN {ZeroVolatility}
             ELSE {ZeroVolatility, [kind |-> "residue", variance |-> variance]}

ZeroSharpe == [kind |-> "zero", excess |-> Num(0, 1), over |-> ZeroVolatility]

\* calculateSharpeRatio without the test of the volatility
calculateSharpeRatio_Unguarded(returns, volatility) ==
    IF Len(returns) = 0 THEN ZeroSharpe
    ELSE [kind |-> "ratio",
          excess |-> NumMinus(NumTimesInt(tradingDaysPerYear,
                                          meanReturn(returns)),
                              riskFreeRate),
          over |-> volatility]

\* calculateSharpeRatio, called with the volatility as analyzePortfolio
\* calls it: the literal 0, or the quotient (annualizedReturn -
\* riskFreeRate) / volatility
calculateSharpeRatio(returns, volatility) ==
    IF Len(returns) = 0 THEN ZeroSharpe
    ELSE IF volatility.kind = "zero" THEN ZeroSharpe
    ELSE [kind |-> "ratio",
          excess |-> NumMinus(NumTimesInt(tradingDaysPerYear,
                                          meanReturn(returns)),
                              riskFreeRate),
          over |-> volatility]

\* the beta of an analysis: 1, 0.5, 2, volatility / 0.15 in between (the
\* volatility is sqrt(252 * variance)), NaN, or the 0 of getEmptyAnalysis
Beta(kind, variance) == [kind |-> kind, variance |-> variance]

\* Math.min(2, Math.max(0.5, vol / 0.15)): vol / 0.15 < 0.5 is
\* 252 * variance < 0.075^2, vol / 0.15 > 2 is 252 * variance > 0.3^2
betaEstimate(volatility) ==
    IF volatility.kind = "nan" THEN Beta("nan", NaN)
    ELSE IF volatility.kind \in {"zero", "residue"}
    THEN Beta("floor", Num(0, 1))
    ELSE IF NumLess(NumTimesInt(tradingDaysPerYear, volatility.variance),
                    Num(9, 1600))
    THEN Beta("floor", Num(0, 1))
    ELSE IF NumGreater(NumTimesInt(tradingDaysPerYear, volatility.variance),
                       Num(9, 100))
    THEN Beta("cap", Num(0, 1))
    ELSE Beta("estimate", volatility.variance)

\* calculateBeta that estimates when there is no market data
calculateBeta_WithoutMarketData(returns, marketData, volatility) ==
    IF marketData \/ Len(returns) = 0 THEN Beta("one", Num(0, 1))
    ELSE betaEstimate(volatility)

\* calculateBeta: `if (!marketData || !returns || returns.length === 0)
\* return 1`, else the estimate from the volatility of the returns
calculateBeta(returns, marketData, volatility) ==
    IF ~marketData \/ Len(returns) = 0 THEN Beta("one", Num(0, 1))
    ELSE betaEstimate(volatility)

ZeroTreynor ==
    [kind |-> "zero", excess |-> Num(0, 1), over |-> Beta("zero", Num(0, 1))]

\* calculateTreynorRatio: 0 without returns or with beta === 0, else
\* (annualizedReturn - riskFreeRate) / beta
calculateTreynorRatio(returns, beta) ==
    IF Len(returns) = 0 \/ beta.kind = "zero" THEN ZeroTreynor
    ELSE [kind |-> "ratio",
          excess |-> NumMinus(NumTimesInt(tradingDaysPerYear,
                                          meanReturn(returns)),
                              riskFreeRate),
          over |-> beta]

\* calculateHerfindahlIndex
calculateHerfindahlIndex(weights) ==
    NumSum([k \in 1..Len(weights) |-> NumProduct(weights[k], weights[k])])

\* the keys of assetTypes: asset.type || 'unknown'
assetTypeKeys(holdings) ==
    {IF holdings[k].type = "" THEN "unknown" ELSE holdings[k].type :
        k \in 1..Len(holdings)}

\* analyzeDiversification
analyzeDiversification(holdings, weights) ==
    LET herfindahlIndex == calculateHerfindahlIndex(weights)
        effectiveN == NumOver(Num(1, 1), herfindahlIndex)
    IN  [assetTypes |-> assetTypeKeys(holdings),
         herfindahlIndex |-> herfindahlIndex,
         effectiveN |-> effectiveN,
         diversificationRatio |-> NumOverInt(effectiveN, Len(holdings)),
         isWellDiversified |-> /\ NumGreater(effectiveN, Num(10, 1))
                               /\ NumLess(herfindahlIndex, Num(15, 100))]

\* evaluatePortfolio: its first entry, the verdict on the diversification.
\* The entries after it depend on the simulated drawdown and are left out.
evaluatePortfolio(diversification) ==
    IF diversification.isWellDiversified
    THEN [pros |-> <<"Diversification">>, cons |-> <<>>]
    ELSE [pros |-> <<>>, cons |-> <<"Concentration Risk">>]

\* generateRecommendations: its first test, of the concentration
generateRecommendations(diversification) ==
    IF NumGreater(diversification.herfindahlIndex, Num(15, 100))
    THEN <<"Broad Market Index Funds">>
    ELSE <<>>

\* getEmptyAnalysis
getEmptyAnalysis ==
    [metrics |-> [totalValue |-> 0, volatility |-> ZeroVolatility,
                  sharpeRatio |-> ZeroSharpe, expectedReturn |-> Num(0, 1),
                  beta |-> Beta("zero", Num(0, 1)),
                  treynorRatio |-> ZeroTreynor],
     diversification |-> [assetTypes |-> {},
                          herfindahlIndex |-> Num(0, 1),
                          effectiveN |-> Num(0, 1),
                          diversificationRatio |-> Num(0, 1),
                          isWellDiversified |-> FALSE],
     prosAndCons |-> [pros |-> <<>>, cons |-> <<>>],
     recommendations |-> <<>>]

\* analyzePortfolio past its first test
fullAnalysis(holdings, marketData, volatility) ==
    LET totalValue == calculateTotalValue(holdings)
        returns == calculateAssetReturns(holdings)
        weights == calculateWeights(holdings, totalValue)
        diversification == analyzeDiversification(holdings, weights)
    IN  [metrics |-> [totalValue |-> totalValue,
                      volatility |-> volatility,
                      sharpeRatio |-> calculateSharpeRatio(returns, volatility),
                      expectedReturn |->
                          IF Len(returns) = 0 THEN Num(0, 1)
                          ELSE NumTimesInt(tradingDaysPerYear,
                                           meanReturn(returns)),
                      beta |-> calculateBeta(returns, marketData, volatility),
                      treynorRatio |->
                          calculateTreynorRatio(returns,
                              calculateBeta(returns, marketData, volatility))],
         diversification |-> diversification,
         prosAndCons |-> evaluatePortfolio(diversification),
         recommendations |-> generateRecommendations(diversification)]

\* analyzePortfolio without its first test
analyzePortfolio_Unguarded(input, volatility) ==
    fullAnalysis(input.holdings, input.marketData, volatility)

\* analyzePortfolio, given what calculateVolatility returned
analyzePortfolio(input, volatility) ==
    IF input.missing \/ Len(input.holdings) = 0 THEN getEmptyAnalysis
    ELSE fullAnalysis(input.holdings, input.marketData, volatility)

\* an asset: its value, the prices its return is computed from, its type
HoldingValues == {0, 1, 3}
HoldingPrices ==
    {<<0, 0>>, <<10, 10>>, <<10, 11>>, <<10, 9>>, <<0, 5>>, <<50, 51>>}
HoldingTypes == {"", "stock"}

Holdings ==
    {[totalValue |-> v, buyPrice |-> pr[1], currentPrice |-> pr[2],
      type |-> t] : v \in HoldingValues, pr \in HoldingPrices,
                    t \in HoldingTypes}

RECURSIVE HoldingLists(_)
HoldingLists(n) ==
    IF n = 0 THEN {<<>>}
    ELSE LET shorter == HoldingLists(n - 1)
         IN  shorter \cup {Append(q, h) : q \in {r \in shorter : Len(r) = n - 1},
                                          h \in Holdings}

\* what analyzePortfolio is called with: no list, or a list of holdings,
\* and the market data of getMarketData or none (the default null)
AnalyzerInputs ==
    {[missing |-> TRUE, holdings |-> <<>>, marketData |-> m] : m \in BOOLEAN}
        \cup {[missing |-> FALSE, holdings |-> q, marketData |-> m] :
                  q \in HoldingLists(MaxHoldings), m \in BOOLEAN}

AnalyzerInit ==
    /\ anCall = "none"
    /\ anInput = [missing |-> TRUE, holdings |-> <<>>, marketData |-> FALSE]
    /\ anResult = getEmptyAnalysis

\* analyzePortfolio.  PortfolioAnalyzer keeps nothing between calls, so a
\* behaviour follows one call.
AnalyzePortfolio ==
    /\ anCall = "none"
    /\ \E input \in AnalyzerInputs :
         \E volatility \in calculateVolatility(
                               calculateAssetReturns(input.holdings)) :
            /\ anInput' = input
            /\ anResult' = analyzePortfolio(input, volatility)
    /\ anCall' = "analyzePortfolio"

\* getZScore, in thousandths: the table entry of the confidence level
getZScore(confidenceLevel) ==
    CASE confidenceLevel = 90 -> 1282
      [] confidenceLevel = 95 -> 1645
      [] confidenceLevel = 99 -> 2326
      [] OTHER -> 1645

\* [...returns].sort((a, b) => a - b) of numbers
RECURSIVE sortAscending(_)
sortAscending(returns) ==
    IF returns = <<>> THEN <<>>
    ELSE LET least == CHOOSE k \in 1..Len(returns) :
                          \A j \in 1..Len(returns) :
                              ~NumLess(returns[j], returns[k])
             others == [j \in 1..(Len(returns) - 1) |->
                           IF j < least THEN returns[j] ELSE returns[j + 1]]
         IN  <<returns[least]>> \o sortAscending(others)

\* Math.floor((1 - confidenceLevel) * n) in double arithmetic, the level in
\* percent.  1 - 0.95 and 1 - 0.99 are a little above 0.05 and 0.01, and the
\* floor is the exact one; 1 - 0.9 is 0.09999999999999998, and at a
\* multiple of 10 the product stays below the integer.
percentileIndex(confidenceLevel, n) ==
    IF confidenceLevel = 90 /\ n % 10 = 0 THEN n \div 10 - 1
    ELSE ((100 - confidenceLevel) * n) \div 100

\* sortedReturns[index].  The comparator gives NaN for a NaN return, and
\* the order of such a list is left to the engine: any element may stand at
\* the index.
percentileLosses(returns, index) ==
    IF \E k \in 1..Len(returns) : returns[k] = NaN
    THEN {returns[k] : k \in 1..Len(returns)}
    ELSE {sortAscending(returns)[index + 1]}

\* Math.abs(x * Math.sqrt(10)) of a number x: the factor is kept apart
tenDayAbs(x) ==
    IF x.d = 0 THEN [n |-> Abs(x.n), d |-> 0] ELSE Num(Abs(x.n), x.d)

\* the parametric estimate: Math.abs(dailyVaR * Math.sqrt(10)) with
\* dailyVaR = totalValue * (meanReturn - zScore * volatility / sqrt(252)).
\* The roots are not taken: the value is kept by its parts, the absolute
\* value of their combination, and is NaN when the mean or the volatility is.
parametricVaR(totalValue, returns, confidenceLevel, volatility) ==
    LET mean == IF Len(returns) > 0 THEN meanReturn(returns) ELSE Num(0, 1)
    IN  [method |-> "parametric",
         index |-> 0,
         percentileLoss |-> Num(0, 1),
         totalValue |-> totalValue,
         meanReturn |-> mean,
         zScore |-> getZScore(confidenceLevel),
         volatility |-> volatility,
         isNaN |-> mean = NaN \/ volatility.kind = "nan",
         absolute |-> TRUE]

\* the historical estimate:
\* Math.abs(totalValue * percentileLoss * Math.sqrt(10))
historicalVaR(totalValue, index, percentileLoss) ==
    [method |-> "historical",
     index |-> index,
     percentileLoss |-> percentileLoss,
     totalValue |-> totalValue,
     meanReturn |-> Num(0, 1),
     zScore |-> 0,
     volatility |-> ZeroVolatility,
     isNaN |-> percentileLoss = NaN,
     absolute |-> TRUE,
     tenDay |-> tenDayAbs(NumTimesInt(totalValue, percentileLoss))]

\* `returns.length` of a missing list: a TypeError
VaRThrown ==
    [method |-> "thrown", index |-> 0, percentileLoss |-> Num(0, 1),
     totalValue |-> 0, meanReturn |-> Num(0, 1), zScore |-> 0,
     volatility |-> ZeroVolatility, isNaN |-> FALSE, absolute |-> FALSE]

\* calculateVaR: the values it can return, given what calculateVolatility
\* returns for the list
calculateVaR(totalValue, missing, returns, confidenceLevel, volatility) ==
    IF missing THEN {VaRThrown}
    ELSE IF Len(returns) < 10
    THEN {parametricVaR(totalValue, returns, confidenceLevel, volatility)}
    ELSE {historicalVaR(totalValue,
                        percentileIndex(confidenceLevel, Len(returns)), loss) :
             loss \in percentileLosses(returns,
                          percentileIndex(confidenceLevel, Len(returns)))}

\* the returns calculateVaR is handed: no list, the lists of up to two
\* returns, and longer ones of a sample size around the threshold
ReturnValues == {Num(-1, 10), Num(0, 1), Num(1, 10), NaN}

ShortReturns ==
    {<<>>} \cup {<<r>> : r \in ReturnValues}
           \cup {<<r, t>> : r \in ReturnValues, t \in ReturnValues}

SampleSizes == {9, 10, 11, 20}

paddedReturns(q, n, filler) ==
    [k \in 1..n |-> IF k <= Len(q) THEN q[k] ELSE filler]

ReturnLists ==
    ShortReturns
        \cup {paddedReturns(q, n, filler) :
                 q \in {r \in ShortReturns : Len(r) = 2}, n \in SampleSizes,
                 filler \in {Num(0, 1), Num(1, 10)}}

ConfidenceLevels == {90, 95, 99}

TotalValues == {0, 1000}

VaRInputs ==
    {[missing |-> TRUE, totalValue |-> 1000, returns |-> <<>>,
      confidenceLevel |-> 95]}
        \cup {[missing |-> FALSE, totalValue |-> v, returns |-> q,
               confidenceLevel |-> c] :
                 v \in TotalValues, q \in ReturnLists, c \in ConfidenceLevels}

\* calculateVaR, called on its own
CalculateVaR ==
    /\ anCall = "none"
    /\ \E input \in VaRInputs :
         \E volatility \in calculateVolatility(input.returns) :
            \E result \in calculateVaR(input.totalValue, input.missing,
                                       input.returns, input.confidenceLevel,
                                       volatility) :
               /\ anInput' = input
               /\ anResult' = result
    /\ anCall' = "calculateVaR"

-----------------------------------------------------------------------------
(* error-handler.js: the alert queue of ErrorHandler                      *)
(*                                                                         *)
(* JavaScript runs a handler to its next await without interruption, so a  *)
(* step is a call of showUserAlert with the part of processAlertQueue it   *)
(* runs, the end of a delay with the part of the loop that follows, or the  *)
(* report of a rejected promise.  Time is counted in seconds.              *)

MaxAlerts == 4
MaxSeconds == 3

AlertMessages == {"saved", "failed"}

\* the message of getUserMessage for an error without a type
UnexpectedError == "unexpected"

AlertInit ==
    /\ alertQueue = <<>>
    /\ isProcessingAlerts = FALSE
    /\ alertLoops = 0
    /\ now = 0
    /\ displayed = <<>>
    /\ rejections = 0
    /\ alertsRaised = 0

\* Math.abs(a.timestamp - alert.timestamp) < 2000
withinTwoSeconds(a, alert) ==
    Abs(a.timestamp - alert.timestamp) < 2

\* the alerts still queued that repeat the one taken
recentAlerts(queue, alert) ==
    SelectSeq(queue, LAMBDA a : a.message = alert.message
                                  /\ withinTwoSeconds(a, alert))

\* the passes of the loop that display nothing: the queue as it stands when
\* an alert is to be displayed (its head), or empty
RECURSIVE skipDuplicates(_)
skipDuplicates(queue) ==
    IF queue = <<>> THEN <<>>
    ELSE IF Len(recentAlerts(Tail(queue), Head(queue))) = 0 THEN queue
    ELSE skipDuplicates(Tail(queue))

\* processAlertQueue from the test of its loop to its next delay, its
\* return or its failure, entered with `waiting` other calls in a delay and
\* `pending` rejections to report.
\* displayAlert may throw (no document.body, a message that is no string):
\* the call ends there, past the shift and short of the last assignment.
loopRuns(queue, waiting, pending) ==
    LET q == skipDuplicates(queue)
    IN  IF q = <<>>
        THEN /\ alertQueue' = <<>>
             /\ isProcessingAlerts' = FALSE
             /\ alertLoops' = waiting
             /\ rejections' = pending
             /\ UNCHANGED displayed
        ELSE /\ alertQueue' = Tail(q)
             /\ isProcessingAlerts' = TRUE
             /\ \/ /\ displayed' = Append(displayed, Head(q).message)
                   /\ alertLoops' = waiting + 1
                   /\ rejections' = pending
                \/ /\ alertLoops' = waiting
                   /\ rejections' = pending + 1
                   /\ UNCHANGED displayed

\* showUserAlert(message): push, then processAlertQueue unless one is
\* marked as running
alertShown(message) ==
    LET queue == Append(alertQueue, [message |-> message, timestamp |-> now])
    IN  IF isProcessingAlerts
        THEN /\ alertQueue' = queue
             /\ UNCHANGED <<isProcessingAlerts, alertLoops, displayed,
                            rejections>>
        ELSE loopRuns(queue, alertLoops, rejections)

showUserAlert ==
    /\ alertsRaised < MaxAlerts
    /\ \E message \in AlertMessages : alertShown(message)
    /\ alertsRaised' = alertsRaised + 1
    /\ UNCHANGED now

\* the delay of a waiting processAlertQueue is over: its loop goes on
processAlertQueue ==
    /\ alertLoops > 0
    /\ loopRuns(alertQueue, alertLoops - 1, rejections)
    /\ UNCHANGED <<now, alertsRaised>>

\* the unhandledrejection listener: handleError, which ends in showUserAlert
unhandledRejection ==
    /\ rejections > 0
    /\ LET queue == Append(alertQueue,
                           [message |-> UnexpectedError, timestamp |-> now])
       IN  IF isProcessingAlerts
           THEN /\ alertQueue' = queue
                /\ rejections' = rejections - 1
                /\ UNCHANGED <<isProcessingAlerts, alertLoops, displayed>>
           ELSE loopRuns(queue, alertLoops, rejections - 1)
    /\ UNCHANGED <<now, alertsRaised>>

\* a second passes
secondPasses ==
    /\ now < MaxSeconds
    /\ now' = now + 1
    /\ UNCHANGED <<alertQueue, isProcessingAlerts, alertLoops, displayed,
                   rejections, alertsRaised>>

-----------------------------------------------------------------------------
(* EnhancedPortfolioManager: addAsset *)

MaxCalls == 2

NoCall == [pc |-> "none", symbol |-> "", quantity |-> 0, buyPrice |-> 0]

ManagerIdle ==
    /\ managerHoldings = <<>>
    /\ addCalls = [c \in 1..MaxCalls |-> NoCall]

\* what the form holds when Add is pressed; "" and 0 are a field left empty
FormSymbols == {"", "AAPL", "MSFT"}
FormQuantities == {0, 1, 2}
FormBuyPrices == {10}

Holding(symbol, quantity, buyPrice) ==
    [symbol |-> symbol, quantity |-> quantity, buyValue |-> quantity * buyPrice]

\* the constructor: this.holdings = this.loadFromStorage() || []
ManagerInit ==
    /\ managerHoldings \in {<<>>, <<Holding("AAPL", 1, 10)>>}
    /\ addCalls = [c \in 1..MaxCalls |-> NoCall]

\* this.holdings.find(h => h.symbol === symbol): the index of the first
\* holding of the symbol, 0 if there is none
findHolding(symbol) ==
    IF \E k \in 1..Len(managerHoldings) : managerHoldings[k].symbol = symbol
    THEN CHOOSE k \in 1..Len(managerHoldings) :
            /\ managerHoldings[k].symbol = symbol
            /\ \A j \in 1..(k - 1) : managerHoldings[j].symbol # symbol
    ELSE 0

\* the call c moves on to the await named
callAt(c, await) == addCalls' = [addCalls EXCEPT ![c].pc = await]

\* addAsset from its start to its first await: the form is read and
\* checked, then the symbol is sent for validation
addAsset(c) ==
    /\ addCalls[c].pc = "none"
    /\ \E symbol \in FormSymbols, quantity \in FormQuantities,
          buyPrice \in FormBuyPrices :
         addCalls' = [addCalls EXCEPT ![c] =
                        [pc |-> IF symbol = "" \/ quantity = 0
                                THEN "done" ELSE "validating",
                         symbol |-> symbol, quantity |-> quantity,
                         buyPrice |-> buyPrice]]
    /\ UNCHANGED managerHoldings

\* validateAndFetchSymbolInfo has returned: an invalid symbol ends the
\* call; an owned one is merged if the user confirms, and the call waits
\* for updateAssetPrice, or it ends; otherwise the call asks for the quote
symbolValidated(c) ==
    /\ addCalls[c].pc = "validating"
    /\ \E isValid \in BOOLEAN, merge \in BOOLEAN :
         LET existingHolding == findHolding(addCalls[c].symbol)
         IN  IF ~isValid
             THEN callAt(c, "done") /\ UNCHANGED managerHoldings
             ELSE IF existingHolding # 0
             THEN IF merge
                  THEN /\ managerHoldings' =
                            [managerHoldings EXCEPT ![existingHolding] =
                               [symbol |-> @.symbol,
                                quantity |-> @.quantity + addCalls[c].quantity,
                                buyValue |-> @.buyValue
                                    + addCalls[c].buyPrice
                                        * addCalls[c].quantity]]
                       /\ callAt(c, "updating")
                  ELSE callAt(c, "done") /\ UNCHANGED managerHoldings
             ELSE callAt(c, "quoting") /\ UNCHANGED managerHoldings

\* updateAssetPrice of the merged holding has returned: the call saves,
\* renders and waits for updateCharts
priceUpdated(c) ==
    /\ addCalls[c].pc = "updating"
    /\ callAt(c, "charting")
    /\ UNCHANGED managerHoldings

\* this.api.getQuote has returned or failed: the asset is pushed, or the
\* catch reports the error
quoteReturned(c) ==
    /\ addCalls[c].pc = "quoting"
    /\ \/ /\ managerHoldings' =
                Append(managerHoldings,
                       Holding(addCalls[c].symbol, addCalls[c].quantity,
                               addCalls[c].buyPrice))
          /\ callAt(c, "charting")
       \/ callAt(c, "done") /\ UNCHANGED managerHoldings

\* updateCharts has returned: the form is cleared and the call ends
chartsUpdated(c) ==
    /\ addCalls[c].pc = "charting"
    /\ callAt(c, "done")
    /\ UNCHANGED managerHoldings

-----------------------------------------------------------------------------
(* PortfolioManager of portfolio-professional.js: the price cache *)

MaxMinutes == 6

\* the values of a field: a number, undefined, NaN
Number(v) == [kind |-> "number", value |-> v]
Undefined == [kind |-> "undefined", value |-> 0]
NotANumber == [kind |-> "NaN", value |-> 0]

\* what getCurrentPrice returns: an object { price, previousClose } or a
\* bare number
PriceObject(price, previousClose) ==
    [isObject |-> TRUE, value |-> 0, price |-> price,
     previousClose |-> previousClose]

PriceNumber(v) ==
    [isObject |-> FALSE, value |-> v, price |-> 0, previousClose |-> 0]

NoPrice == [hit |-> FALSE, returned |-> PriceNumber(0)]

PriceIdle ==
    /\ priceCache = <<>>
    /\ pmAsset = [quantity |-> 0, currentPrice |-> Number(0),
                  previousClose |-> Number(0), marketValue |-> Number(0)]
    /\ pmClock = 0
    /\ pmLast = NoPrice

\* a holding as addAsset stored it, the cache of a manager just constructed
PriceInit ==
    /\ priceCache = <<>>
    /\ \E quantity \in {1, 2} :
         pmAsset = [quantity |-> quantity, currentPrice |-> Number(100),
                    previousClose |-> Number(100),
                    marketValue |-> Number(quantity * 100)]
    /\ pmClock = 0
    /\ pmLast = NoPrice

\* what the proxy answers: a quote with its regularMarketPrice, or nothing
\* of use (an error, a body without a price)
Quotes ==
    {[price |-> pr, previousClose |-> cl] : pr \in {150, 151}, cl \in {149}}

\* the mock of the fallback: 100 + Math.random() * 200 and a previous
\* close within 5% of it
MockQuotes == {[price |-> 200, previousClose |-> cl] : cl \in {190, 210}}

\* `cached && Date.now() - cached.timestamp < 300000`, in minutes
cacheHit == priceCache # <<>> /\ pmClock - priceCache[1].timestamp < 5

\* priceData.price and priceData.previousClose: a number has neither
priceOf(priceData) ==
    IF priceData.isObject THEN Number(priceData.price) ELSE Undefined

previousCloseOf(priceData) ==
    IF priceData.isObject THEN Number(priceData.previousClose) ELSE Undefined

\* quantity * currentPrice
timesQuantity(quantity, currentPrice) ==
    IF currentPrice.kind = "number" THEN Number(quantity * currentPrice.value)
    ELSE NotANumber

\* `if (priceData)`: an object, or a number other than 0
truthy(priceData) == priceData.isObject \/ priceData.value # 0

\* the assignments of updateAssetPrice
assetWith(priceData) ==
    IF truthy(priceData)
    THEN [quantity |-> pmAsset.quantity,
          currentPrice |-> priceOf(priceData),
          previousClose |-> previousCloseOf(priceData),
          marketValue |-> timesQuantity(pmAsset.quantity, priceOf(priceData))]
    ELSE pmAsset

\* getCurrentPrice on a fresh cache entry: `return cached.price`
getCurrentPriceCached ==
    /\ cacheHit
    /\ pmLast' = [hit |-> TRUE, returned |-> PriceNumber(priceCache[1].price)]
    /\ UNCHANGED priceCache

\* getCurrentPrice past the cache: the quote is cached and returned as
\* { price, previousClose }
getCurrentPriceFetched ==
    /\ ~cacheHit
    /\ \E quote \in Quotes :
         /\ priceCache' = <<[price |-> quote.price,
                             previousClose |-> quote.previousClose,
                             timestamp |-> pmClock]>>
         /\ pmLast' = [hit |-> FALSE,
                       returned |-> PriceObject(quote.price,
                                                quote.previousClose)]

\* getCurrentPrice past the cache without a quote: the mock, not cached
getCurrentPriceMock ==
    /\ ~cacheHit
    /\ \E quote \in MockQuotes :
         pmLast' = [hit |-> FALSE,
                    returned |-> PriceObject(quote.price, quote.previousClose)]
    /\ UNCHANGED priceCache

\* updateAssetPrice(asset): getCurrentPrice, then the assignments
updateAssetPriceOf ==
    /\ \/ getCurrentPriceCached
       \/ getCurrentPriceFetched
       \/ getCurrentPriceMock
    /\ pmAsset' = assetWith(pmLast'.returned)
    /\ UNCHANGED pmClock

\* a minute passes
minutePasses ==
    /\ pmClock < MaxMinutes
    /\ pmClock' = pmClock + 1
    /\ UNCHANGED <<priceCache, pmAsset, pmLast>>

-----------------------------------------------------------------------------
(* The strategies as functions of the series they are given: a call of a   *)
(* strategy and of calculatePerformanceMetrics on any series, the flat     *)
(* ones and the 100 flat bars at 100 of the example scenario included.     *)

\* the series a strategy may be handed
AnySeries ==
    UNION {Series(n) : n \in 1..MaxLen} \cup {[j \in 1..100 |-> Bar(100)]}

\* the strategies whose transitions are followed bar by bar
FollowedStrategies == {"buyAndHold", "momentum", "meanReversion"}

StrategyInit ==
    /\ \E name \in FollowedStrategies, p \in ParamChoices, d \in AnySeries :
         /\ strategyName = name
         /\ params = p
         /\ historicalData = d
         /\ preData = d
         /\ i = firstIndex(name, p)
         /\ cash = OrDefault(p.initialCapital, DEFAULT_CAPITAL)
    /\ results = NoResults
    /\ preResults = NoResults
    /\ pc = "strategy"
    /\ outcome = "running"
    /\ position = 0
    /\ trades = <<>>
    /\ portfolioValues = <<>>
    /\ finalValue = 0

-----------------------------------------------------------------------------
(* The specifications *)

Init ==
    /\ BacktestInit /\ RiskInit /\ PortfolioIdle /\ MCInit /\ QuantInit
    /\ AnalyzerInit /\ AlertInit /\ ManagerIdle /\ PriceIdle

\* the backtest engine
Next ==
    \/ loadHistoricalData /\ UNCHANGED <<riskVars, pfVars, mcVars, quVars, anVars,
                 alVars, emVars, pmVars>>
    \/ runBacktestNotFound /\ UNCHANGED <<riskVars, pfVars, mcVars, quVars, anVars,
                 alVars, emVars, pmVars>>
    \/ runBacktest /\ UNCHANGED <<riskVars, pfVars, mcVars, quVars, anVars,
                 alVars, emVars, pmVars>>
    \/ runBacktestInherited /\ UNCHANGED <<riskVars, pfVars, mcVars, quVars, anVars,
                 alVars, emVars, pmVars>>
    \/ buyAndHoldStrategy /\ UNCHANGED <<riskVars, pfVars, mcVars, quVars, anVars,
                 alVars, emVars, pmVars>>
    \/ momentumBar /\ UNCHANGED <<riskVars, pfVars, mcVars, quVars, anVars,
                 alVars, emVars, pmVars>>
    \/ momentumReturn /\ UNCHANGED <<riskVars, pfVars, mcVars, quVars, anVars,
                 alVars, emVars, pmVars>>
    \/ meanReversionBar /\ UNCHANGED <<riskVars, pfVars, mcVars, quVars, anVars,
                 alVars, emVars, pmVars>>
    \/ meanReversionReturn /\ UNCHANGED <<riskVars, pfVars, mcVars, quVars, anVars,
                 alVars, emVars, pmVars>>
    \/ macdSkip /\ UNCHANGED <<riskVars, pfVars, mcVars, quVars, anVars,
                 alVars, emVars, pmVars>>
    \/ macdBar /\ UNCHANGED <<riskVars, pfVars, mcVars, quVars, anVars,
                 alVars, emVars, pmVars>>
    \/ macdReturn /\ UNCHANGED <<riskVars, pfVars, mcVars, quVars, anVars,
                 alVars, emVars, pmVars>>
    \/ metricsThrow /\ UNCHANGED <<riskVars, pfVars, mcVars, quVars, anVars,
                 alVars, emVars, pmVars>>
    \/ metricsReturn /\ UNCHANGED <<riskVars, pfVars, mcVars, quVars, anVars,
                 alVars, emVars, pmVars>>

Spec == Init /\ [][Next]_vars

\* a strategy and the metrics, run on any series
StrategyNext ==
    \/ buyAndHoldStrategy /\ UNCHANGED <<riskVars, pfVars, mcVars, quVars, anVars,
                 alVars, emVars, pmVars>>
    \/ momentumBar /\ UNCHANGED <<riskVars, pfVars, mcVars, quVars, anVars,
                 alVars, emVars, pmVars>>
    \/ momentumReturn /\ UNCHANGED <<riskVars, pfVars, mcVars, quVars, anVars,
                 alVars, emVars, pmVars>>
    \/ meanReversionBar /\ UNCHANGED <<riskVars, pfVars, mcVars, quVars, anVars,
                 alVars, emVars, pmVars>>
    \/ meanReversionReturn /\ UNCHANGED <<riskVars, pfVars, mcVars, quVars, anVars,
                 alVars, emVars, pmVars>>
    \/ metricsThrow /\ UNCHANGED <<riskVars, pfVars, mcVars, quVars, anVars,
                 alVars, emVars, pmVars>>
    \/ metricsReturn /\ UNCHANGED <<riskVars, pfVars, mcVars, quVars, anVars,
                 alVars, emVars, pmVars>>

InitStrategy ==
    /\ StrategyInit /\ RiskInit /\ PortfolioIdle /\ MCInit /\ QuantInit
    /\ AnalyzerInit /\ AlertInit /\ ManagerIdle /\ PriceIdle

SpecStrategy == InitStrategy /\ [][StrategyNext]_vars

\* the risk scorer
RiskNext ==
    \/ CalculateRiskScore /\ UNCHANGED <<btVars, pfVars, mcVars, quVars, anVars,
                 alVars, emVars, pmVars>>
    \/ RepeatCalculateRiskScore
           /\ UNCHANGED <<btVars, pfVars, mcVars, quVars, anVars,
                 alVars, emVars, pmVars>>
    \/ GetRiskLevel /\ UNCHANGED <<btVars, pfVars, mcVars, quVars, anVars,
                 alVars, emVars, pmVars>>

SpecRisk == Init /\ [][RiskNext]_vars

\* the portfolio pages
PortfolioNext ==
    \/ addPosition /\ UNCHANGED <<btVars, riskVars, mcVars, quVars, anVars,
                 alVars, emVars, pmVars>>
    \/ removePosition /\ UNCHANGED <<btVars, riskVars, mcVars, quVars, anVars,
                 alVars, emVars, pmVars>>
    \/ editPosition /\ UNCHANGED <<btVars, riskVars, mcVars, quVars, anVars,
                 alVars, emVars, pmVars>>
    \/ autoRefresh /\ UNCHANGED <<btVars, riskVars, mcVars, quVars, anVars,
                 alVars, emVars, pmVars>>
    \/ submitAsset /\ UNCHANGED <<btVars, riskVars, mcVars, quVars, anVars,
                 alVars, emVars, pmVars>>
    \/ submitAssetEdit /\ UNCHANGED <<btVars, riskVars, mcVars, quVars, anVars,
                 alVars, emVars, pmVars>>
    \/ updateAssetPrice /\ UNCHANGED <<btVars, riskVars, mcVars, quVars, anVars,
                 alVars, emVars, pmVars>>
    \/ removeFromPortfolio /\ UNCHANGED <<btVars, riskVars, mcVars, quVars, anVars,
                 alVars, emVars, pmVars>>
    \/ importPortfolio /\ UNCHANGED <<btVars, riskVars, mcVars, quVars, anVars,
                 alVars, emVars, pmVars>>

InitPortfolio ==
    /\ BacktestInit /\ RiskInit /\ PortfolioInit /\ MCInit /\ QuantInit
    /\ AnalyzerInit /\ AlertInit /\ ManagerIdle /\ PriceIdle

SpecPortfolio == InitPortfolio /\ [][PortfolioNext]_vars

\* the Monte Carlo engine
MCNext ==
    \/ runMonteCarloSimulation /\ UNCHANGED <<btVars, riskVars, pfVars, quVars, anVars,
                 alVars, emVars, pmVars>>
    \/ simulatePath /\ UNCHANGED <<btVars, riskVars, pfVars, quVars, anVars,
                 alVars, emVars, pmVars>>
    \/ monteCarloReturn /\ UNCHANGED <<btVars, riskVars, pfVars, quVars, anVars,
                 alVars, emVars, pmVars>>

SpecMC == Init /\ [][MCNext]_vars

\* the quantitative analysis page
QuantNext ==
    \/ initQuantEngine /\ UNCHANGED <<btVars, riskVars, pfVars, mcVars, anVars,
                 alVars, emVars, pmVars>>
    \/ runQuantAnalysis /\ UNCHANGED <<btVars, riskVars, pfVars, mcVars, anVars,
                 alVars, emVars, pmVars>>

SpecQuant == Init /\ [][QuantNext]_vars

\* the portfolio analyzer
AnalyzerNext ==
    AnalyzePortfolio /\ UNCHANGED <<btVars, riskVars, pfVars, mcVars, quVars,
                 alVars, emVars, pmVars>>

SpecAnalyzer == Init /\ [][AnalyzerNext]_vars

\* calculateVaR of the portfolio analyzer
VaRNext ==
    CalculateVaR /\ UNCHANGED <<btVars, riskVars, pfVars, mcVars, quVars,
                 alVars, emVars, pmVars>>

SpecVaR == Init /\ [][VaRNext]_vars

\* the variables the error handler leaves alone
besideAlerts ==
    <<btVars, riskVars, pfVars, mcVars, quVars, anVars, emVars, pmVars>>

\* the alert queue of the error handler
AlertNext ==
    \/ showUserAlert /\ UNCHANGED <<btVars, riskVars, pfVars, mcVars, quVars,
                                    anVars, emVars, pmVars>>
    \/ processAlertQueue /\ UNCHANGED <<btVars, riskVars, pfVars, mcVars,
                                        quVars, anVars, emVars, pmVars>>
    \/ unhandledRejection /\ UNCHANGED <<btVars, riskVars, pfVars, mcVars,
                                         quVars, anVars, emVars, pmVars>>
    \/ secondPasses /\ UNCHANGED <<btVars, riskVars, pfVars, mcVars, quVars,
                                   anVars, emVars, pmVars>>

SpecAlerts == Init /\ [][AlertNext]_vars

\* the timer of a delay fires, and a rejection left unhandled is reported
SpecAlertsFair ==
    /\ Init
    /\ [][AlertNext]_vars
    /\ WF_vars(processAlertQueue /\ UNCHANGED besideAlerts)
    /\ WF_vars(unhandledRejection /\ UNCHANGED besideAlerts)

\* addAsset of the enhanced portfolio manager: the calls overlap at their
\* awaits
ManagerNext ==
    \E c \in 1..MaxCalls :
       \/ addAsset(c) /\ UNCHANGED <<btVars, riskVars, pfVars, mcVars, quVars,
                                     anVars, alVars, pmVars>>
       \/ symbolValidated(c) /\ UNCHANGED <<btVars, riskVars, pfVars, mcVars,
                                            quVars, anVars, alVars, pmVars>>
       \/ priceUpdated(c) /\ UNCHANGED <<btVars, riskVars, pfVars, mcVars,
                                         quVars, anVars, alVars, pmVars>>
       \/ quoteReturned(c) /\ UNCHANGED <<btVars, riskVars, pfVars, mcVars,
                                          quVars, anVars, alVars, pmVars>>
       \/ chartsUpdated(c) /\ UNCHANGED <<btVars, riskVars, pfVars, mcVars,
                                          quVars, anVars, alVars, pmVars>>

InitManager ==
    /\ BacktestInit /\ RiskInit /\ PortfolioIdle /\ MCInit /\ QuantInit
    /\ AnalyzerInit /\ AlertInit /\ ManagerInit /\ PriceIdle

SpecManager == InitManager /\ [][ManagerNext]_vars

\* the price cache of the professional portfolio manager
PriceNext ==
    \/ updateAssetPriceOf /\ UNCHANGED <<btVars, riskVars, pfVars, mcVars,
                                         quVars, anVars, alVars, emVars>>
    \/ minutePasses /\ UNCHANGED <<btVars, riskVars, pfVars, mcVars, quVars,
                                   anVars, alVars, emVars>>

InitPrices ==
    /\ BacktestInit /\ RiskInit /\ PortfolioIdle /\ MCInit /\ QuantInit
    /\ AnalyzerInit /\ AlertInit /\ ManagerIdle /\ PriceInit

SpecPrices == InitPrices /\ [][PriceNext]_vars

\* every division of an exponential average is exact in units of 1/Scale
ExactEMA ==
    (pc = "strategy" /\ strategyName = "macdCrossover") =>
        \A j \in 1..Len(macdData) :
            /\ macdData[j].macd % Pow(2, MaxLen + 1 - j) = 0
            /\ macdData[j].signal % Pow(2, MaxLen + 1 - j) = 0

-----------------------------------------------------------------------------
(* Properties of the BacktestEngine *)

Last(s) == s[Len(s)]

lastClose == historicalData[Len(historicalData)].close

initialCapitalOf(p) == OrDefault(p.initialCapital, DEFAULT_CAPITAL)

Alternates(ts) ==
    \A k \in 1..Len(ts) :
        ts[k].action = (IF k % 2 = 1 THEN "BUY" ELSE "SELL")

SignalStrategies == {"momentum", "meanReversion", "macdCrossover"}

\* C1: momentum, meanReversion and macdCrossover never hold two positions at
\* once: the trade list alternates BUY, SELL, BUY, ... from a BUY, the
\* position is open exactly after a BUY and flat exactly after a SELL, in
\* the running strategy and in every stored result.
C1_TradesAlternate ==
    /\ (pc # "idle" /\ strategyName \in SignalStrategies) =>
          /\ Alternates(trades)
          /\ (position > 0) = (Len(trades) % 2 = 1)
          /\ (position = 0) = (Len(trades) % 2 = 0)
    /\ results.strategy \in SignalStrategies => Alternates(results.trades)

\* a signal strategy has bought, sold and bought again
C1_Witness ==
    /\ pc = "strategy"
    /\ strategyName \in SignalStrategies
    /\ Len(trades) = 3
    /\ position > 0

\* one step of a strategy that records a BUY takes floor(cash / price)
\* shares with all of the cash before it; one that records a SELL gives up
\* the whole position and adds all proceeds to cash
C2_Step ==
    (Len(trades') = Len(trades) + 1) =>
        LET t == trades'[Len(trades')]
        IN  /\ t.action = "BUY" =>
                 /\ t.shares = cash \div t.price
                 /\ position' = t.shares
                 /\ cash' = cash - t.shares * t.price
                 /\ cash' < t.price
            /\ t.action = "SELL" =>
                 /\ t.shares = position
                 /\ position' = 0
                 /\ cash' = cash + position * t.price

\* C2: in every strategy a BUY invests all cash in floor(cash / price) whole
\* shares and a SELL liquidates the whole position; cash and position are
\* never negative.
C2_AllInAllOut == [](cash >= 0 /\ position >= 0) /\ [][C2_Step]_vars

\* a strategy has bought and has sold everything again
C2_Witness ==
    /\ pc = "strategy"
    /\ Len(trades) = 2
    /\ trades[2].action = "SELL"
    /\ position = 0
    /\ cash > 0

\* C3: a call of runBacktest with a name that is none of the four strategies
\* throws and leaves historicalData and results as they were before the call.
C3_UnknownNameRejected ==
    (strategyName \notin strategies /\ strategyName # "none") =>
        /\ outcome = "thrown"
        /\ historicalData = preData
        /\ results = preResults

\* C6: when a strategy returns with its position open, the trade list ends
\* with a BUY and finalValue is cash + position * final close, which is the
\* last value of the equity curve.
C6_OpenPositionMarkedToMarket ==
    (pc = "metrics" /\ position > 0) =>
        /\ trades # <<>>
        /\ Last(trades).action = "BUY"
        /\ finalValue = cash + position * lastClose
        /\ portfolioValues # <<>>
        /\ finalValue = Last(portfolioValues).value

StrictlyRising(data) ==
    \A j \in 1..(Len(data) - 1) : data[j].close < data[j + 1].close

StrictlyIncreasing(values) ==
    \A j \in 1..(Len(values) - 1) : values[j].value < values[j + 1].value

OneBuy(ts) == Len(ts) = 1 /\ ts[1].action = "BUY"

\* C8 as stated: buyAndHold on a strictly rising series, for any positive
\* initial capital, makes exactly one trade, a BUY, and a strictly
\* increasing equity curve.
C8_AnyCapital ==
    (pc = "metrics" /\ strategyName = "buyAndHold"
       /\ StrictlyRising(historicalData)) =>
        /\ OneBuy(trades)
        /\ StrictlyIncreasing(portfolioValues)

\* C8: buyAndHold on a strictly rising series, for an initial capital of at
\* least the first close, makes exactly one trade, a BUY, and a strictly
\* increasing equity curve.
C8_CapitalBuysAShare ==
    (pc = "metrics" /\ strategyName = "buyAndHold"
       /\ StrictlyRising(historicalData)
       /\ initialCapitalOf(params) >= historicalData[1].close) =>
        /\ OneBuy(trades)
        /\ StrictlyIncreasing(portfolioValues)

\* buyAndHold has returned from a rising series of three bars or more
C8_Witness ==
    /\ pc = "metrics"
    /\ strategyName = "buyAndHold"
    /\ Len(historicalData) >= 3
    /\ StrictlyRising(historicalData)
    /\ initialCapitalOf(params) >= historicalData[1].close

\* the matched pairs of an alternating trade list: (BUY 2k-1, SELL 2k)
Pairs(ts) == 1..(Len(ts) \div 2)

Wins(ts) == {k \in Pairs(ts) : ts[2 * k].price > ts[2 * k - 1].price}

\* C9: the win rate counts the matched BUY -> SELL pairs only: a pair wins
\* iff the SELL price exceeds its BUY price, a trailing BUY is not counted,
\* and without a pair the rate is 0; the reported rate is the quotient
\* rounded to two decimals of a percent.
C9_WinRateOverPairs ==
    results.strategy # "null" =>
        LET m == results.metrics
            ts == results.trades
        IN  /\ m.totalClosedTrades = Cardinality(Pairs(ts))
            /\ m.winningTrades = Cardinality(Wins(ts))
            /\ m.totalClosedTrades = 0 => m.winRate = 0
            /\ m.totalClosedTrades > 0 =>
                 /\ 2 * (m.winRate * m.totalClosedTrades
                           - 10000 * m.winningTrades) <= m.totalClosedTrades
                 /\ 2 * (10000 * m.winningTrades
                           - m.winRate * m.totalClosedTrades) < m.totalClosedTrades

\* a stored result with one winning pair and a trailing BUY
C9_Witness ==
    /\ results.strategy # "null"
    /\ Len(results.trades) = 3
    /\ results.metrics.totalClosedTrades = 1
    /\ results.metrics.winRate = 10000

\* a stored result without a pair
C9_WitnessNoPair ==
    /\ results.strategy # "null"
    /\ Len(results.trades) = 1
    /\ results.metrics.winRate = 0

-----------------------------------------------------------------------------
(* Claims about the risk scorer *)

ScoreRange == 0..(100 * 1000)

\* the sentiment percentages of the last call sum past 100 before the clamp
sentimentClampActs ==
    /\ riskInput.newsAnalysis.present
    /\ sentimentSum(riskInput.newsAnalysis) > 100 * 1000

\* C4: for inputs in their ranges, calculateRiskScore returns each of the
\* five component scores and the composite totalRisk within [0,100].
C4_ScoresInRange ==
    riskCall = "calculateRiskScore" =>
        /\ riskResult.components.market \in ScoreRange
        /\ riskResult.components.credit \in ScoreRange
        /\ riskResult.components.liquidity \in ScoreRange
        /\ riskResult.components.sentiment \in ScoreRange
        /\ riskResult.components.systemic \in ScoreRange
        /\ riskResult.totalRisk \in 0..100

\* C4 witness: a call whose sentiment sum exceeds 100 and is clamped to it,
\* with the credit score brought down by diversification.
C4_Witness ==
    /\ riskCall = "calculateRiskScore"
    /\ sentimentClampActs
    /\ riskResult.components.sentiment = 100 * 1000
    /\ riskResult.components.credit < 30 * 1000
    /\ riskResult.totalRisk > 60

\* the band the claim assigns to a score of [0,100]
bandOf(riskScore) ==
    IF riskScore < 20 * Point THEN "MINIMAL"
    ELSE IF riskScore < 40 * Point THEN "LOW"
    ELSE IF riskScore < 60 * Point THEN "MODERATE"
    ELSE IF riskScore < 75 * Point THEN "ELEVATED"
    ELSE IF riskScore < 90 * Point THEN "HIGH"
    ELSE "EXTREME"

\* C5: getRiskLevel returns, for every score of [0,100], the level that
\* carries the key of the score's band, a score of exactly 100 being EXTREME.
C5_LevelCarriesBandKey ==
    (riskCall = "getRiskLevel" /\ riskInput.riskScore \in 0..(100 * Point)) =>
        riskResult.level.key = bandOf(riskInput.riskScore)

\* C5 below the top: every score of [0,100) gets the key of its band.
C5_BelowTop ==
    (riskCall = "getRiskLevel" /\ riskInput.riskScore < 100 * Point) =>
        riskResult.level.key = bandOf(riskInput.riskScore)

-----------------------------------------------------------------------------
(* Claims about the portfolio pages *)

\* C7: whatever was added, merged, edited, repriced, removed or imported,
\* every holding left in a portfolio has quantity > 0, buy price > 0 and
\* current price > 0 (so a holding whose quantity reaches zero is gone).
C7_HoldingsPositive ==
    /\ \A k \in 1..Len(positions) :
         /\ positions[k].quantity > 0
         /\ NumPositive(positions[k].buyPrice)
         /\ NumPositive(positions[k].currentPrice)
    /\ \A k \in 1..Len(portfolio) :
         /\ portfolio[k].amount > 0
         /\ portfolio[k].buyPrice > 0
         /\ portfolio[k].currentPrice > 0

-----------------------------------------------------------------------------
(* Claims about the Monte Carlo engine *)

\* a call has returned
mcReturned == mcPc = "idle" /\ simulations >= 1

\* C10: for every run, whatever the number of simulations (>= 1) and the
\* final values, CVaR95 (the mean of the worst floor(0.05 N) sorted final
\* values) is a defined number and is no greater than VaR95 (the sorted
\* final value at index floor(0.05 N)).
C10_CVaRDefinedAndBelowVaR ==
    mcReturned =>
        /\ mcReturn.CVaR95.count > 0
        /\ mcReturn.CVaR95.sum <= mcReturn.VaR95 * mcReturn.CVaR95.count

\* C10 from 20 simulations on: the tail is not empty and its mean is no
\* greater than VaR95.
C10_FromTwentySimulations ==
    (mcReturned /\ simulations >= 20) =>
        /\ mcReturn.CVaR95.count > 0
        /\ mcReturn.CVaR95.sum <= mcReturn.VaR95 * mcReturn.CVaR95.count

-----------------------------------------------------------------------------
(* Claims about the quantitative analysis page *)

\* zero, negative or NaN
Degenerate(x) == x = <<>> \/ x[1] <= 0

\* runQuantAnalysis has run a Monte Carlo analysis with the engine set
quantRan == quantCall = "montecarlo" /\ quantInput.engineReady

\* the engine got the default for each degenerate input but expectedReturn
othersReplaced ==
    LET args == quantOutcome.arguments
    IN  /\ Degenerate(quantInput.portfolio.currentValue) =>
             args.portfolio.currentValue = <<DEFAULT_CURRENT_VALUE>>
        /\ Degenerate(quantInput.portfolio.volatility) =>
             args.portfolio.volatility = <<DEFAULT_VOLATILITY>>
        /\ Degenerate(quantInput.horizonDays) =>
             args.horizonDays = <<DEFAULT_HORIZON>>
        /\ Degenerate(quantInput.numSimulations) =>
             args.numSimulations = <<DEFAULT_SIMULATIONS>>
        /\ ~Degenerate(args.portfolio.currentValue)
        /\ ~Degenerate(args.portfolio.volatility)
        /\ ~Degenerate(args.horizonDays)
        /\ ~Degenerate(args.numSimulations)

-----------------------------------------------------------------------------
(* Claims about the portfolio analyzer *)

analyzed == anCall = "analyzePortfolio"

emptyInput == anInput.missing \/ anInput.holdings = <<>>

\* C12: analyzePortfolio called with an empty or missing holdings list
\* returns the zeroed analysis record: every metric 0, empty diversification
\* maps, no pros, cons or recommendations, isWellDiversified false.
C12_EmptyGivesZeroedRecord ==
    (analyzed /\ emptyInput) =>
        /\ anResult = getEmptyAnalysis
        /\ anResult.metrics.totalValue = 0
        /\ anResult.metrics.volatility.kind = "zero"
        /\ anResult.metrics.sharpeRatio.kind = "zero"
        /\ anResult.diversification.assetTypes = {}
        /\ ~anResult.diversification.isWellDiversified
        /\ anResult.prosAndCons = [pros |-> <<>>, cons |-> <<>>]
        /\ anResult.recommendations = <<>>

\* a call without a holdings list has returned
C12_Witness == analyzed /\ anInput.missing /\ anResult = getEmptyAnalysis

\* a call with an empty holdings list has returned
C12_WitnessEmptyList ==
    analyzed /\ ~anInput.missing /\ anInput.holdings = <<>>

\* the index and the weights analyzePortfolio computed
reportedIndex == anResult.diversification.herfindahlIndex

\* C13: for every non-empty holdings list passed to analyzePortfolio the
\* Herfindahl index of the diversification breakdown lies in (0, 1], and it
\* is 1 when the portfolio has a single holding.
C13_IndexInUnitInterval ==
    (analyzed /\ ~emptyInput) =>
        /\ NumGreater(reportedIndex, Num(0, 1))
        /\ ~NumGreater(reportedIndex, Num(1, 1))
        /\ Len(anInput.holdings) = 1 => reportedIndex = Num(1, 1)

\* C14: the Sharpe ratio is exactly 0 whenever the volatility is 0,
\* whatever the returns: the quotient is not formed.
C14_ZeroVolatilityZeroSharpe ==
    (analyzed /\ ~emptyInput /\ anResult.metrics.volatility.kind = "zero") =>
        anResult.metrics.sharpeRatio = ZeroSharpe

\* a zero volatility came from several equal non-zero returns, whose mean
\* differs from the risk-free rate
C14_Witness ==
    /\ analyzed
    /\ Len(anInput.holdings) = MaxHoldings
    /\ anResult.metrics.volatility.kind = "zero"
    /\ anResult.metrics.expectedReturn = Num(126, 5)
    /\ anResult.metrics.sharpeRatio = ZeroSharpe

\* a zero volatility came from a single holding
C14_WitnessSingle ==
    /\ analyzed
    /\ Len(anInput.holdings) = 1
    /\ anResult.metrics.volatility.kind = "zero"
    /\ anResult.metrics.expectedReturn.n < 0

-----------------------------------------------------------------------------
(* Claims about the backtest metrics and the failure of a run *)

\* C15: the metrics of a backtest never carry NaN or an infinity: over an
\* equity curve without spread, or with no return at all, sharpeRatio and
\* volatility are the defined sentinel 0.
C15_MetricsDefined ==
    outcome = "returned" =>
        /\ results.metrics.sharpeRatio = "finite"
        /\ results.metrics.volatility \in {"zero", "positive"}

\* C16: a run either completes, storing a full result, or fails leaving the
\* stored results and historicalData as they were before the call, for every
\* price series, those no longer than the lookback window included.
C16_FailsAtomically ==
    /\ outcome = "thrown" => (results = preResults /\ historicalData = preData)
    /\ outcome = "returned" =>
         /\ results.strategy = strategyName
         /\ Len(results.portfolioValues) > 0

-----------------------------------------------------------------------------
(* Claims about the defaults, the recommendations and the repeatability of *)
(* the risk scorer                                                         *)

scored == riskCall \in {"calculateRiskScore", "repeated"}

\* the arguments with every missing optional field written out as the
\* default the claim names
marketDataWithDefaults(m) ==
    [elements |-> m.elements,
     avgVolume |-> IF m.avgVolume = 0 THEN 1000000 ELSE m.avgVolume,
     bidAskSpread |-> IF m.bidAskSpread = 0 THEN 10 ELSE m.bidAskSpread,
     avgCorrelation |-> IF m.avgCorrelation = 0 THEN 40 ELSE m.avgCorrelation,
     contagionIndicator |->
         IF m.contagionIndicator = 0 THEN 30 ELSE m.contagionIndicator]

portfolioWithDefaults(pf) ==
    [pf EXCEPT !.beta = IF @ = 0 THEN 100 ELSE @,
               !.hasAssets = TRUE,
               !.assets = IF pf.hasAssets THEN @ ELSE <<100>>]

completeResult(r) ==
    /\ r.totalRisk \in 0..100
    /\ \A c \in DOMAIN r.components : r.components[c] \in 0..(100 * 1000)
    /\ r.level.key \in {riskLevels[k].key : k \in 1..Len(riskLevels)}
    /\ Len(r.recommendations) >= 1

\* C17: calculateRiskScore called with optional fields missing returns a
\* complete result, the one it returns when each missing field holds its
\* default: beta 1.0, avgVolume 1,000,000, a single full-weight asset,
\* bidAskSpread 0.001, avgCorrelation 0.4, contagionIndicator 0.3; without
\* a news analysis the sentiment risk is 50.
C17_MissingFieldsTakeDefaults ==
    scored =>
        /\ completeResult(riskResult)
        /\ riskResult = calculateRiskScore(
                            marketDataWithDefaults(riskInput.marketData),
                            portfolioWithDefaults(riskInput.portfolio),
                            riskInput.newsAnalysis)
        /\ ~riskInput.newsAnalysis.present =>
             riskResult.components.sentiment = 50 * 1000

\* the call was made with every optional field missing
C17_Witness ==
    /\ riskCall = "calculateRiskScore"
    /\ riskInput.marketData.avgVolume = 0
    /\ riskInput.marketData.bidAskSpread = 0
    /\ riskInput.marketData.avgCorrelation = 0
    /\ riskInput.marketData.contagionIndicator = 0
    /\ riskInput.portfolio.beta = 0
    /\ ~riskInput.portfolio.hasAssets
    /\ ~riskInput.newsAnalysis.present
    /\ riskInput.marketData.elements = <<>>
    /\ riskResult.components.market = 80 * 1000
    /\ riskResult.components.liquidity = 40 * 1000
    /\ riskResult.components.systemic = 54 * 1000

\* the overall advisory of a level
advisoryOfLevel(key) ==
    CASE key \in {"MINIMAL", "LOW"} -> "opportunity"
      [] key = "MODERATE" -> "maintain"
      [] key = "ELEVATED" -> "caution"
      [] OTHER -> "urgent"

\* the conditional advisories in their order, each with its trigger
conditionalAdvisories == <<"hedging", "liquidity", "quality", "diversification">>

triggered(type, components) ==
    CASE type = "hedging" -> components.market > 70 * 1000
      [] type = "liquidity" -> components.liquidity > 60 * 1000
      [] type = "quality" -> components.credit > 65 * 1000
      [] type = "diversification" -> components.systemic > 70 * 1000

rank(type) == CHOOSE k \in 1..4 : conditionalAdvisories[k] = type

\* C18: the recommendations are one overall advisory chosen by the level,
\* then the conditional advisories, each there exactly when its trigger
\* holds (market > 70, liquidity > 60, credit > 65, systemic > 70), in that
\* order; between 1 and 5 in all.
C18_RecommendationList ==
    scored =>
        LET recs == riskResult.recommendations
            rest == SubSeq(recs, 2, Len(recs))
        IN  /\ Len(recs) \in 1..5
            /\ recs[1] = advisoryOfLevel(riskResult.level.key)
            /\ \A k \in 1..Len(rest) :
                 \E j \in 1..4 : rest[k] = conditionalAdvisories[j]
            /\ \A j \in 1..4 :
                 (\E k \in 1..Len(rest) : rest[k] = conditionalAdvisories[j])
                     <=> triggered(conditionalAdvisories[j],
                                   riskResult.components)
            /\ \A k, l \in 1..Len(rest) : k < l => rank(rest[k]) < rank(rest[l])

\* all four conditional advisories follow the overall one
C18_Witness == scored /\ Len(riskResult.recommendations) = 5

\* the overall advisory stands alone
C18_WitnessAlone == scored /\ Len(riskResult.recommendations) = 1

ranOnEmptyEngine ==
    /\ outcome \in {"returned", "thrown"}
    /\ strategyName \in strategies
    /\ preData = <<>>

-----------------------------------------------------------------------------
(* Claims about the transitions of the strategies *)

\* a run of the strategy has returned and its result is stored
returnedRun(name) == outcome = "returned" /\ results.strategy = name

\* C21: buyAndHold makes one transition, FLAT to LONG on day 0 at that
\* bar's opening price: its trade list is a single trade dated at the first
\* bar whose price is the first bar's open.
C21_OneBuyAtFirstOpen ==
    returnedRun("buyAndHold") =>
        /\ Len(results.trades) = 1
        /\ results.trades[1].action = "BUY"
        /\ results.trades[1].date = 0
        /\ results.trades[1].price = historicalData[1].open

\* C21 with the price the strategy takes: the single trade of buyAndHold is
\* a BUY dated at the first bar whose price is the first bar's close.
C21_OneBuyAtFirstClose ==
    returnedRun("buyAndHold") =>
        /\ Len(results.trades) = 1
        /\ results.trades[1].action = "BUY"
        /\ results.trades[1].date = 0
        /\ results.trades[1].price = historicalData[1].close

\* a buyAndHold run over several bars has returned with its shares bought
C21_Witness ==
    /\ returnedRun("buyAndHold")
    /\ Len(historicalData) >= 3
    /\ results.trades[1].shares > 0
    /\ results.trades[1].price # historicalData[1].open

\* every bar of the series closes at the same price
constantSeries(data) == \A j \in 1..Len(data) : data[j].close = data[1].close

\* C22: buyAndHold on 100 bars closing at 100 with initialCapital 10000
\* makes one trade of 100 shares, ends with finalValue 10000 and reports a
\* totalReturn of "0.00%"; on any constant-price series finalValue equals
\* initialCapital.
C22_FlatSeriesKeepsCapital ==
    (returnedRun("buyAndHold") /\ constantSeries(historicalData)) =>
        /\ results.finalValue = initialCapitalOf(params)
        /\ results.metrics.totalReturn = [negative |-> FALSE, hundredths |-> 0]
        /\ Len(results.trades) = 1
        /\ (/\ Len(historicalData) = 100
            /\ historicalData[1].close = 100
            /\ initialCapitalOf(params) = 10000)
               => results.trades[1].shares = 100

\* the run of the example: 100 bars at 100, capital 10000
C22_Witness ==
    /\ returnedRun("buyAndHold")
    /\ Len(historicalData) = 100
    /\ constantSeries(historicalData)
    /\ historicalData[1].close = 100
    /\ initialCapitalOf(params) = 10000
    /\ results.trades[1].shares = 100
    /\ results.finalValue = 10000

\* a constant series whose price does not divide the capital
C22_WitnessRemainder ==
    /\ returnedRun("buyAndHold")
    /\ constantSeries(historicalData)
    /\ historicalData[1].close = 3
    /\ initialCapitalOf(params) = DEFAULT_CAPITAL
    /\ Len(historicalData) >= 2

\* one pass of momentumStrategy's loop
momentumStep == pc = "strategy" /\ strategyName = "momentum" /\ i' = i + 1

\* the configured window of the moving average (default 20)
maPeriodOf(p) == IF p.maPeriod = 0 THEN 20 ELSE p.maPeriod

\* the closes of the n bars before bar i
closesBefore(n) == [j \in 1..n |-> historicalData[i - n + j].close]

\* the close of bar i
closeOfBar == historicalData[i + 1].close

\* close > MA * 1.02 and close < MA * 0.98, MA = sum / n
aboveAverageBand ==
    closeOfBar * maPeriodOf(params) * 100
        > SumSeq(closesBefore(maPeriodOf(params))) * 102

belowAverageBand ==
    closeOfBar * maPeriodOf(params) * 100
        < SumSeq(closesBefore(maPeriodOf(params))) * 98

\* the step opens a position with a BUY at the bar's close
opensLong ==
    /\ position' > 0
    /\ Len(trades') = Len(trades) + 1
    /\ Last(trades').action = "BUY"
    /\ Last(trades').price = closeOfBar

\* the step closes the position with a SELL at the bar's close
closesLong ==
    /\ position' = 0
    /\ Len(trades') = Len(trades) + 1
    /\ Last(trades').action = "SELL"
    /\ Last(trades').price = closeOfBar

noTransition == UNCHANGED <<position, cash, trades>>

\* C23 as stated: at every bar from index maPeriod on, momentum moves
\* FLAT->LONG whenever close > MA * 1.02, LONG->FLAT whenever
\* close < MA * 0.98, and makes no transition otherwise.
C23_MomentumTransitions ==
    [][momentumStep =>
         /\ i >= maPeriodOf(params)
         /\ (position = 0 /\ aboveAverageBand) => opensLong
         /\ (position > 0 /\ belowAverageBand) => closesLong
         /\ (~(position = 0 /\ aboveAverageBand)
               /\ ~(position > 0 /\ belowAverageBand)) => noTransition]_vars

\* C23 with the sizing the loop applies: FLAT->LONG whenever
\* close > MA * 1.02 and cash buys at least one share, LONG->FLAT whenever
\* close < MA * 0.98, no transition otherwise.
C23_MomentumTransitionsWhenAffordable ==
    [][momentumStep =>
         /\ i >= maPeriodOf(params)
         /\ (position = 0 /\ aboveAverageBand /\ cash >= closeOfBar)
               => opensLong
         /\ (position > 0 /\ belowAverageBand) => closesLong
         /\ (~(position = 0 /\ aboveAverageBand /\ cash >= closeOfBar)
               /\ ~(position > 0 /\ belowAverageBand)) => noTransition]_vars

\* a momentum run has gone FLAT->LONG, LONG->FLAT and stayed LONG over a
\* bar above the band in between or after
C23_Witness ==
    /\ strategyName = "momentum"
    /\ pc = "strategy"
    /\ Len(trades) >= 2
    /\ trades[1].action = "BUY"
    /\ trades[2].action = "SELL"
    /\ Len(portfolioValues) > Len(trades)

\* a momentum run is about to see a bar above the band that cash cannot buy
C23_WitnessNoCash ==
    /\ strategyName = "momentum"
    /\ pc = "strategy"
    /\ i < Len(historicalData)
    /\ i >= maPeriodOf(params)
    /\ position = 0
    /\ aboveAverageBand
    /\ cash < closeOfBar

\* one pass of meanReversionStrategy's loop
meanReversionStep ==
    pc = "strategy" /\ strategyName = "meanReversion" /\ i' = i + 1

\* the configured lookback (default 20) and threshold (default 2.0)
lookbackOf(p) == IF p.lookback = 0 THEN 20 ELSE p.lookback

thresholdOf(p) == IF p.zScoreThreshold = 0 THEN 2 ELSE p.zScoreThreshold

\* n * (close - mean) and n * n * variance over the lookback window
deviationOfBar ==
    lookbackOf(params) * closeOfBar - SumSeq(closesBefore(lookbackOf(params)))

spreadOfWindow ==
    LET n == lookbackOf(params)
        w == closesBefore(n)
    IN  n * SumSeq([j \in 1..n |-> w[j] * w[j]]) - SumSeq(w) * SumSeq(w)

\* z < -threshold and z > 0, z = (close - mean) / std; on a window without
\* spread z is -Infinity below the mean, +Infinity above it, NaN at it
oversold ==
    /\ deviationOfBar < 0
    /\ deviationOfBar * deviationOfBar
         > thresholdOf(params) * thresholdOf(params) * spreadOfWindow

backToMean == deviationOfBar > 0

\* C24 as stated: at every bar from index lookback on, meanReversion moves
\* FLAT->LONG whenever z < -threshold, LONG->FLAT whenever z > 0 (or
\* > +threshold), and makes no transition otherwise, windows whose standard
\* deviation is 0 included.
C24_MeanReversionTransitions ==
    [][meanReversionStep =>
         /\ i >= lookbackOf(params)
         /\ (position = 0 /\ oversold) => opensLong
         /\ (position > 0 /\ backToMean) => closesLong
         /\ (~(position = 0 /\ oversold)
               /\ ~(position > 0 /\ backToMean)) => noTransition]_vars

\* C24 with the sizing the loop applies: FLAT->LONG whenever z < -threshold
\* and cash buys at least one share, LONG->FLAT whenever z > 0, no
\* transition otherwise, windows whose standard deviation is 0 included.
C24_MeanReversionTransitionsWhenAffordable ==
    [][meanReversionStep =>
         /\ i >= lookbackOf(params)
         /\ (position = 0 /\ oversold /\ cash >= closeOfBar) => opensLong
         /\ (position > 0 /\ backToMean) => closesLong
         /\ (~(position = 0 /\ oversold /\ cash >= closeOfBar)
               /\ ~(position > 0 /\ backToMean)) => noTransition]_vars

\* a meanReversion run has bought below a window without spread and sold
\* again
C24_Witness ==
    /\ strategyName = "meanReversion"
    /\ pc = "strategy"
    /\ Len(trades) >= 2
    /\ trades[1].action = "BUY"
    /\ trades[2].action = "SELL"
    /\ LET b == trades[1].date
       IN  \A j \in 1..lookbackOf(params) :
              historicalData[b - lookbackOf(params) + j].close
                  = historicalData[b].close

\* a meanReversion run is about to see an oversold bar that cash cannot buy
C24_WitnessNoCash ==
    /\ strategyName = "meanReversion"
    /\ pc = "strategy"
    /\ i < Len(historicalData)
    /\ i >= lookbackOf(params)
    /\ position = 0
    /\ oversold
    /\ cash < closeOfBar


-----------------------------------------------------------------------------
(* Claims about the beta and the Treynor ratio of the PortfolioAnalyzer *)

\* analyzePortfolio has analyzed a list of at least one holding
analyzedHoldings == analyzed /\ ~emptyInput

\* volatility / 0.15 kept within [0.5, 2], for a volatility of
\* sqrt(252 * variance)
volatilityRatio(volatility) ==
    IF volatility.kind = "nan" THEN "nan"
    ELSE IF volatility.kind # "positive" THEN "floor"
    ELSE IF volatility.variance.n * 252 * 1600 < 9 * volatility.variance.d
    THEN "floor"
    ELSE IF volatility.variance.n * 252 * 100 > 9 * volatility.variance.d
    THEN "cap"
    ELSE "estimate"

\* the Treynor ratio is the annualized excess return over the reported beta
treynorOverBeta ==
    /\ anResult.metrics.treynorRatio.kind = "ratio"
    /\ anResult.metrics.treynorRatio.over = anResult.metrics.beta
    /\ anResult.metrics.treynorRatio.excess
         = NumMinus(anResult.metrics.expectedReturn, Num(2, 100))

C25_WitnessMarketData ==
    /\ analyzedHoldings
    /\ anInput.marketData
    /\ anResult.metrics.beta.kind = "estimate"


-----------------------------------------------------------------------------
(* Claims about calculateVaR *)

\* calculateVaR has returned for a list of returns
calculatedVaR == anCall = "calculateVaR" /\ ~anInput.missing

\* floor((1 - confidence) * n), the level in percent
floorOfTail(confidenceLevel, n) == ((100 - confidenceLevel) * n) \div 100

\* the value is a number that is 0 or more: an absolute value of a number
nonNegativeFigure ==
    /\ ~anResult.isNaN
    /\ anResult.absolute
    /\ anResult.method = "historical" =>
          (anResult.tenDay # NaN /\ anResult.tenDay.n >= 0)

\* C26: calculateVaR returns the parametric estimate for fewer than 10
\* returns (none included) and for 10 or more the historical one, taken at
\* index floor((1 - confidence) * n) of the returns sorted ascending; the
\* result is a non-negative 10-day figure in both cases.
C26_VaRMethodBySampleSize ==
    calculatedVaR =>
        /\ Len(anInput.returns) < 10 => anResult.method = "parametric"
        /\ Len(anInput.returns) >= 10 =>
              /\ anResult.method = "historical"
              /\ anResult.index
                   = floorOfTail(anInput.confidenceLevel, Len(anInput.returns))
        /\ nonNegativeFigure

\* C26 for the confidence level of the analyzer, 0.95, and returns that are
\* all numbers
C26_VaRAtDefaultConfidence ==
    (/\ calculatedVaR
     /\ anInput.confidenceLevel = 95
     /\ \A k \in 1..Len(anInput.returns) : anInput.returns[k] # NaN) =>
        /\ Len(anInput.returns) < 10 => anResult.method = "parametric"
        /\ Len(anInput.returns) >= 10 =>
              /\ anResult.method = "historical"
              /\ anResult.index
                   = floorOfTail(anInput.confidenceLevel, Len(anInput.returns))
              /\ anResult.percentileLoss
                   = sortAscending(anInput.returns)[anResult.index + 1]
        /\ nonNegativeFigure

\* the historical estimate at confidence 0.90 of ten returns
C26_WitnessTenAtNinety ==
    /\ calculatedVaR
    /\ anInput.confidenceLevel = 90
    /\ Len(anInput.returns) = 10
    /\ anResult.method = "historical"
    /\ anResult.index = 0

\* the parametric estimate of a list with a return that is not a number
C26_WitnessNaN ==
    /\ calculatedVaR
    /\ Len(anInput.returns) = 1
    /\ anInput.returns[1] = NaN
    /\ anResult.isNaN

\* the historical estimate at 0.95 of twenty returns, the second smallest
C26_WitnessTwenty ==
    /\ calculatedVaR
    /\ anInput.confidenceLevel = 95
    /\ Len(anInput.returns) = 20
    /\ anInput.totalValue = 1000
    /\ anResult.index = 1
    /\ anResult.tenDay = Num(100, 1)


-----------------------------------------------------------------------------
(* Claims about the level of a risk score result *)

\* the band [lo, hi) that holds a number of points, 0 if none does
bandOfPoints(points) ==
    IF \E k \in 1..Len(riskLevels) :
          riskLevels[k].lo <= points /\ points < riskLevels[k].hi
    THEN CHOOSE k \in 1..Len(riskLevels) :
            riskLevels[k].lo <= points /\ points < riskLevels[k].hi
    ELSE 0

\* C27: in every result of calculateRiskScore the level is the band
\* [lo, hi) that holds the reported totalRisk, the rounded composite, and
\* the overall advisory is the one of that band.
C27_LevelHoldsReportedTotal ==
    scored =>
        LET k == bandOfPoints(riskResult.totalRisk)
        IN  /\ k # 0
            /\ riskResult.level.key = riskLevels[k].key
            /\ riskResult.level.lo <= riskResult.totalRisk
            /\ riskResult.totalRisk < riskResult.level.hi
            /\ riskResult.recommendations[1]
                 = advisoryOfLevel(riskLevels[k].key)

\* the level and the advisory are those of the band of the composite before
\* it is rounded
C27_LevelHoldsUnroundedTotal ==
    scored =>
        LET total == riskResult.components.market * 35
                     + riskResult.components.credit * 20
                     + riskResult.components.liquidity * 15
                     + riskResult.components.sentiment * 15
                     + riskResult.components.systemic * 15
        IN  /\ riskResult.level.lo * Point <= total
            /\ total < riskResult.level.hi * Point
            /\ riskResult.recommendations[1]
                 = advisoryOfLevel(riskResult.level.key)

\* a result whose reported total starts a band and whose level is the band
\* below it
C27_WitnessRoundedUp ==
    /\ scored
    /\ \E k \in 2..Len(riskLevels) :
          /\ riskResult.totalRisk = riskLevels[k].lo
          /\ riskResult.level.key = riskLevels[k - 1].key

\* such a result whose advisory is not the one of the reported total's band
C27_WitnessAdvisory ==
    /\ scored
    /\ bandOfPoints(riskResult.totalRisk) # 0
    /\ riskResult.recommendations[1]
         # advisoryOfLevel(riskLevels[bandOfPoints(riskResult.totalRisk)].key)


-----------------------------------------------------------------------------
(* Claims about the alert queue of the error handler *)

\* at most one call of processAlertQueue is under way
C28_AtMostOneLoop == alertLoops <= 1

\* isProcessingAlerts is true only while a call of processAlertQueue is
\* under way
C28_FlagOnlyWhileLoopRuns == isProcessingAlerts => alertLoops = 1

\* C28: under any interleaving of showUserAlert and the loop of
\* processAlertQueue every alert put in the queue is taken out of it in the
\* end, displayed or skipped as a duplicate, also when the display of an
\* earlier alert fails.
C28_EveryAlertDequeued == (alertQueue # <<>>) ~> (alertQueue = <<>>)

\* every alert put in the queue is taken out of it, unless a display has
\* failed: then the flag stays set with no call under way
C28_DequeuedUnlessDisplayFails ==
    (alertQueue # <<>>)
        ~> (alertQueue = <<>> \/ (isProcessingAlerts /\ alertLoops = 0))

\* once the flag is set with no call under way, no step takes an alert out
\* of the queue or clears the flag, whatever is raised afterwards
C28_StuckStaysStuck ==
    [][(isProcessingAlerts /\ alertLoops = 0) =>
          /\ isProcessingAlerts'
          /\ alertLoops' = 0
          /\ Len(alertQueue') >= Len(alertQueue)]_vars

\* an alert is queued, none will be taken: no loop waits and the flag is set
C28_WitnessStuck ==
    /\ alertQueue # <<>>
    /\ isProcessingAlerts
    /\ alertLoops = 0
    /\ rejections = 0

\* two alerts were displayed and one was skipped as a duplicate
C28_WitnessDisplayed ==
    /\ Len(displayed) = 2
    /\ alertsRaised = 3
    /\ alertQueue = <<>>
    /\ rejections = 0
    /\ ~isProcessingAlerts


-----------------------------------------------------------------------------
(* Claims about addAsset of the enhanced portfolio manager *)

\* C29: the holdings hold at most one holding of a symbol, also when calls
\* of addAsset overlap at their awaits: a second add of an owned symbol
\* merges into the holding or adds nothing.
C29_OneHoldingPerSymbol ==
    \A j, k \in 1..Len(managerHoldings) :
        j # k => managerHoldings[j].symbol # managerHoldings[k].symbol

\* a call that finds its symbol owned when validateAndFetchSymbolInfo
\* returns adds no holding: it merges or ends
C29_OwnedAtCheckAddsNothing ==
    [][\A c \in 1..MaxCalls :
          (/\ addCalls[c].pc = "validating"
           /\ findHolding(addCalls[c].symbol) # 0
           /\ addCalls'[c].pc # "validating")
              => /\ Len(managerHoldings') = Len(managerHoldings)
                 /\ addCalls'[c].pc \in {"updating", "done"}]_vars

\* two calls for a symbol that is not owned both wait for their quote
C29_WitnessBothQuoting ==
    /\ addCalls[1].pc = "quoting"
    /\ addCalls[2].pc = "quoting"
    /\ addCalls[1].symbol = addCalls[2].symbol
    /\ findHolding(addCalls[1].symbol) = 0

\* both calls have ended and the symbol is held twice
C29_WitnessTwice ==
    /\ addCalls[1].pc = "done"
    /\ addCalls[2].pc = "done"
    /\ Len(managerHoldings) = 2
    /\ managerHoldings[1].symbol = managerHoldings[2].symbol


-----------------------------------------------------------------------------
(* Claims about the price cache of the professional portfolio manager *)

\* the last getCurrentPrice was answered by the cache
afterCacheHit == pmLast.hit /\ priceCache # <<>>

\* C30: a getCurrentPrice answered by the cache returns the price and the
\* previousClose of the fetch that filled it, so updateAssetPrice after a
\* cache hit leaves the currentPrice, previousClose and marketValue that
\* fetch gave.
C30_CacheHitSameAsFetch ==
    afterCacheHit =>
        /\ pmLast.returned.isObject
        /\ pmLast.returned.price = priceCache[1].price
        /\ pmLast.returned.previousClose = priceCache[1].previousClose
        /\ pmAsset.currentPrice = Number(priceCache[1].price)
        /\ pmAsset.previousClose = Number(priceCache[1].previousClose)
        /\ pmAsset.marketValue
             = Number(pmAsset.quantity * priceCache[1].price)

\* an updateAssetPrice that fetched its quote leaves that quote's values
C30_FetchSetsAsset ==
    (~pmLast.hit /\ pmLast.returned.isObject) =>
        /\ pmAsset.currentPrice = Number(pmLast.returned.price)
        /\ pmAsset.previousClose = Number(pmLast.returned.previousClose)
        /\ pmAsset.marketValue
             = Number(pmAsset.quantity * pmLast.returned.price)

\* the cache answers with the cached price itself
C30_CacheHitReturnsCachedPrice ==
    afterCacheHit =>
        /\ ~pmLast.returned.isObject
        /\ pmLast.returned.value = priceCache[1].price

\* an update within five minutes of the fetch has left the holding without
\* its price
C30_WitnessHit ==
    /\ afterCacheHit
    /\ pmClock - priceCache[1].timestamp = 1
    /\ pmAsset.currentPrice = Undefined
    /\ pmAsset.previousClose = Undefined
    /\ pmAsset.marketValue = NotANumber


====
